---- MODULE Spec2Model ----
(***************************************************************************)
(* Model of saf-eval: the evaluation pipeline (EvaluationPipeline.run),    *)
(* the fact deduplicator (deduplicate_facts) and the similarity scorer     *)
(* (_calculate_similarity, difflib.SequenceMatcher.ratio).                 *)
(*                                                                         *)
(* Texts are sequences of one-character strings.  Ratios are exact         *)
(* rationals [num, den]; the floats the code compares are the correctly    *)
(* rounded values of these rationals, and every comparison made here is    *)
(* between rationals whose difference is far above one ulp.                *)
(***************************************************************************)
EXTENDS Integers, Sequences, FiniteSets, TLC

None == "None"

(***************************************************************************)
(* Bounds.                                                                 *)
(***************************************************************************)
MaxTextLen == 4
MaxFacts == 4
MaxGiven == 3
MaxReplyLen == 5
MaxEntries == 3
MaxTopK == 3

(***************************************************************************)
(* Text helpers (str.lower).                                               *)
(***************************************************************************)
LowerChar(c) ==
  CASE c = "A" -> "a"
    [] c = "B" -> "b"
    [] c = "C" -> "c"
    [] c = "D" -> "d"
    [] c = "E" -> "e"
    [] c = "F" -> "f"
    [] c = "G" -> "g"
    [] c = "H" -> "h"
    [] c = "I" -> "i"
    [] c = "J" -> "j"
    [] c = "K" -> "k"
    [] c = "L" -> "l"
    [] c = "M" -> "m"
    [] c = "N" -> "n"
    [] c = "O" -> "o"
    [] c = "P" -> "p"
    [] c = "Q" -> "q"
    [] c = "R" -> "r"
    [] c = "S" -> "s"
    [] c = "T" -> "t"
    [] c = "U" -> "u"
    [] c = "V" -> "v"
    [] c = "W" -> "w"
    [] c = "X" -> "x"
    [] c = "Y" -> "y"
    [] c = "Z" -> "z"
    [] OTHER -> c

lower(s) == [i \in 1..Len(s) |-> LowerChar(s[i])]

Min(S) == CHOOSE x \in S : \A y \in S : x <= y
Max(S) == CHOOSE x \in S : \A y \in S : x >= y

\* The bullet character U+2022, one character of a text.
Bullet == "bullet"

IsSpace(c) == c \in {" ", "\n"}
isdigit(c) == c \in {"0", "1", "2", "3", "4", "5", "6", "7", "8", "9"}

RECURSIVE lstrip(_)
lstrip(s) == IF s # <<>> /\ IsSpace(Head(s)) THEN lstrip(Tail(s)) ELSE s

RECURSIVE rstrip(_)
rstrip(s) ==
  IF s # <<>> /\ IsSpace(s[Len(s)])
  THEN rstrip(SubSeq(s, 1, Len(s) - 1))
  ELSE s

\* str.strip()
strip(s) == rstrip(lstrip(s))

RECURSIVE lstrip_char(_, _)
\* str.lstrip(c) for a single character c
lstrip_char(s, c) ==
  IF s # <<>> /\ Head(s) = c THEN lstrip_char(Tail(s), c) ELSE s

\* str.find(c), 1-based; 0 when c does not occur
find(s, c) ==
  LET at == {n \in 1..Len(s) : s[n] = c}
  IN  IF at = {} THEN 0 ELSE Min(at)

\* s[n:] for a 1-based n
From(s, n) == SubSeq(s, n, Len(s))

RECURSIVE split(_, _)
\* str.split(sep): empty pieces are kept
split(s, sep) ==
  LET p == find(s, sep)
  IN  IF p = 0 THEN <<s>>
      ELSE <<SubSeq(s, 1, p - 1)>> \o split(From(s, p + 1), sep)

RECURSIVE split_ws(_)
\* str.split(): pieces between runs of whitespace, none empty
split_ws(s) ==
  LET t == lstrip(s)
      ws == {n \in 1..Len(t) : IsSpace(t[n])}
      p == IF ws = {} THEN Len(t) + 1 ELSE Min(ws)
  IN  IF t = <<>> THEN <<>>
      ELSE <<SubSeq(t, 1, p - 1)>> \o split_ws(From(t, p))

\* str.startswith(prefix)
startswith(s, prefix) ==
  /\ Len(s) >= Len(prefix)
  /\ SubSeq(s, 1, Len(prefix)) = prefix

(***************************************************************************)
(* Rationals.                                                              *)
(***************************************************************************)
Rat(n, d) == [num |-> n, den |-> d]
RatGeq(r, t) == r.num * t.den >= t.num * r.den
RatGt(r, t) == r.num * t.den > t.num * r.den
RatEq(r, t) == r.num * t.den = t.num * r.den
RatAdd(r, t) == Rat(r.num * t.den + t.num * r.den, r.den * t.den)
RatMul(r, t) == Rat(r.num * t.num, r.den * t.den)
Zero == Rat(0, 1)
One == Rat(1, 1)

(***************************************************************************)
(* difflib.SequenceMatcher(None, a, b), as _calculate_similarity uses it.  *)
(* Windows are 1-based and inclusive: a[alo..ahi], b[blo..bhi].  The       *)
(* autojunk heuristic only acts when len(b) >= 200 and is outside the      *)
(* text lengths explored here.                                             *)
(***************************************************************************)
RECURSIVE RunLen(_, _, _, _, _, _)
\* Length of the common block of a and b that starts at a[i], b[j].
RunLen(a, b, i, j, ahi, bhi) ==
  IF i > ahi \/ j > bhi THEN 0
  ELSE IF a[i] # b[j] THEN 0
  ELSE 1 + RunLen(a, b, i + 1, j + 1, ahi, bhi)

\* SequenceMatcher.find_longest_match: the longest matching block; of
\* all longest blocks the one starting earliest in a, and of those the one
\* starting earliest in b.  <<i, j, k>>, k = 0 when nothing matches.
find_longest_match(a, b, alo, ahi, blo, bhi) ==
  LET sizes == {RunLen(a, b, i, j, ahi, bhi) : i \in alo..ahi, j \in blo..bhi}
      bestsize == Max(sizes \cup {0})
  IN  IF bestsize = 0 THEN <<alo, blo, 0>>
      ELSE LET besti == Min({i \in alo..ahi :
                               \E j \in blo..bhi :
                                  RunLen(a, b, i, j, ahi, bhi) = bestsize})
               bestj == Min({j \in blo..bhi :
                               RunLen(a, b, besti, j, ahi, bhi) = bestsize})
           IN  <<besti, bestj, bestsize>>

RECURSIVE MatchTotal(_, _, _, _, _, _)
\* SequenceMatcher.get_matching_blocks, summed: the longest block, then
\* recursively the pieces to its left and to its right.
MatchTotal(a, b, alo, ahi, blo, bhi) ==
  IF alo > ahi \/ blo > bhi THEN 0
  ELSE LET m == find_longest_match(a, b, alo, ahi, blo, bhi)
           i == m[1]
           j == m[2]
           k == m[3]
       IN  IF k = 0 THEN 0
           ELSE k + MatchTotal(a, b, alo, i - 1, blo, j - 1)
                  + MatchTotal(a, b, i + k, ahi, j + k, bhi)

\* SequenceMatcher.ratio: 2.0 * matches / length, 1.0 when both are empty.
ratio(a, b) ==
  LET length == Len(a) + Len(b)
  IN  IF length = 0 THEN One
      ELSE Rat(2 * MatchTotal(a, b, 1, Len(a), 1, Len(b)), length)

\* Variant: the texts are compared as given, not lowercased.
_calculate_similarity_cased(text1, text2) == ratio(text1, text2)

_calculate_similarity(text1, text2) == ratio(lower(text1), lower(text2))

(***************************************************************************)
(* deduplicate_facts.                                                      *)
(***************************************************************************)
\* Variant: the comparison with the threshold is inverted.
is_duplicate_inverted(fact, unique_facts, similarity_threshold) ==
  \E k \in 1..Len(unique_facts) :
     RatGeq(similarity_threshold,
            _calculate_similarity(fact.text, unique_facts[k].text))

\* Variant: a fact is a duplicate only when its similarity exceeds the
\* threshold.
is_duplicate_strict(fact, unique_facts, similarity_threshold) ==
  \E k \in 1..Len(unique_facts) :
     RatGt(_calculate_similarity(fact.text, unique_facts[k].text),
           similarity_threshold)

\* Variant: a fact is compared with the fact kept last only.
is_duplicate_last(fact, unique_facts, similarity_threshold) ==
  RatGeq(_calculate_similarity(fact.text,
                               unique_facts[Len(unique_facts)].text),
         similarity_threshold)

\* The inner loop: the fact is a duplicate when its similarity to some
\* fact kept so far reaches the threshold.
is_duplicate(fact, unique_facts, similarity_threshold) ==
  \E k \in 1..Len(unique_facts) :
     RatGeq(_calculate_similarity(fact.text, unique_facts[k].text),
            similarity_threshold)

RECURSIVE DedupLoop_prepend(_, _, _, _)
\* Variant: a new unique fact is put in front of the accumulator.
DedupLoop_prepend(facts, i, unique_facts, similarity_threshold) ==
  IF i > Len(facts) THEN unique_facts
  ELSE IF is_duplicate(facts[i], unique_facts, similarity_threshold)
       THEN DedupLoop_prepend(facts, i + 1, unique_facts,
                              similarity_threshold)
       ELSE DedupLoop_prepend(facts, i + 1, <<facts[i]>> \o unique_facts,
                              similarity_threshold)

RECURSIVE DedupLoop_keeplast(_, _, _, _)
\* Variant: a duplicate replaces the kept fact it duplicates (last seen
\* wins).
DedupLoop_keeplast(facts, i, unique_facts, similarity_threshold) ==
  IF i > Len(facts) THEN unique_facts
  ELSE IF is_duplicate(facts[i], unique_facts, similarity_threshold)
       THEN LET k == Min({n \in 1..Len(unique_facts) :
                            RatGeq(_calculate_similarity(
                                     facts[i].text, unique_facts[n].text),
                                   similarity_threshold)})
            IN  DedupLoop_keeplast(facts, i + 1,
                                   [unique_facts EXCEPT ![k] = facts[i]],
                                   similarity_threshold)
       ELSE DedupLoop_keeplast(facts, i + 1, Append(unique_facts, facts[i]),
                               similarity_threshold)

RECURSIVE DedupLoop(_, _, _, _)
\* The outer loop over facts[1:], i the next position to look at.
DedupLoop(facts, i, unique_facts, similarity_threshold) ==
  IF i > Len(facts) THEN unique_facts
  ELSE IF is_duplicate(facts[i], unique_facts, similarity_threshold)
       THEN DedupLoop(facts, i + 1, unique_facts, similarity_threshold)
       ELSE DedupLoop(facts, i + 1, Append(unique_facts, facts[i]),
                      similarity_threshold)

\* Variant: the accumulator starts empty although the loop starts at the
\* second fact.
deduplicate_facts_skipfirst(facts, similarity_threshold) ==
  IF facts = <<>> THEN <<>>
  ELSE DedupLoop(facts, 2, <<>>, similarity_threshold)

deduplicate_facts(facts, similarity_threshold) ==
  IF facts = <<>> THEN <<>>
  ELSE DedupLoop(facts, 2, <<facts[1]>>, similarity_threshold)

DefaultThreshold == Rat(17, 20)

(***************************************************************************)
(* core/models.py.  Optional[bool] is one of None, PyTrue, PyFalse.        *)
(***************************************************************************)
PyTrue == "True"
PyFalse == "False"

\* AtomicFact(id, text, source_text), the optional fields at their default.
AtomicFact(id, text, source_text) ==
  [id |-> id, text |-> text, source_text |-> source_text,
   is_self_contained |-> None, is_relevant |-> None]

FactEvaluation(fact, documents, category, confidence) ==
  [fact |-> fact, documents |-> documents, category |-> category,
   confidence |-> confidence]

\* The absent optional context of run (context = None).
NoContext == <<None>>

\* ResponseEvaluation declares context: str, so its validation rejects None.
ResponseEvaluationValid(context) == context # NoContext

ResponseEvaluation(response_text, context, facts, evaluations, fscore) ==
  [response_text |-> response_text, context |-> context, facts |-> facts,
   evaluations |-> evaluations, factuality_score |-> fscore]

(***************************************************************************)
(* FactExtractor.                                                          *)
(***************************************************************************)
\* Fresh ids (uuid4): the n-th fact made in a run gets id n.
MakeFacts(texts, response) ==
  [n \in 1..Len(texts) |-> AtomicFact(n, texts[n], response)]

\* Variant: empty pieces are kept too.
NonEmpty_any(t) == TRUE

\* "if s.strip()" / "if line": the text is not empty
NonEmpty(t) == t # <<>>

\* Basic extraction by splitting on periods.
_extract_basic(response) ==
  LET pieces == split(response, ".")
      stripped == [n \in 1..Len(pieces) |-> strip(pieces[n])]
      sentences == SelectSeq(stripped, NonEmpty)
  IN  MakeFacts(sentences, response)

\* One line of the generator's output with list prefixes removed.
clean_line(raw) ==
  LET l1 == strip(raw)
      l2 == strip(lstrip_char(lstrip_char(lstrip_char(l1, Bullet), "-"), "*"))
  IN  IF /\ l2 # <<>>
         /\ Len(l2) > 2
         /\ isdigit(l2[1])
         /\ startswith(Tail(l2), <<".", " ">>)
      THEN strip(From(l2, find(l2, ".") + 1))
      ELSE l2

\* The parsing half of _extract_with_llm: result is the generator's reply.
_extract_with_llm(response, result) ==
  LET lines == split(strip(result), "\n")
      cleaned == [n \in 1..Len(lines) |-> clean_line(lines[n])]
      kept == SelectSeq(cleaned, NonEmpty)
      texts == [n \in 1..Len(kept) |-> strip(kept[n])]
  IN  MakeFacts(SelectSeq(texts, NonEmpty), response)

(***************************************************************************)
(* ContainmentChecker.                                                     *)
(***************************************************************************)
\* Variant: the words are compared as written, not lowercased.
Words_cased(text) ==
  LET w == split_ws(text) IN {w[n] : n \in 1..Len(w)}

\* set(text.lower().split())
Words(text) ==
  LET w == split_ws(lower(text)) IN {w[n] : n \in 1..Len(w)}

PyBool(b) == IF b THEN PyTrue ELSE PyFalse

\* _check_basic: all words of the fact occur among the response's words.
_check_basic(facts, response) ==
  [n \in 1..Len(facts) |->
     [facts[n] EXCEPT !.is_self_contained =
        PyBool(Words(facts[n].text) \subseteq Words(response))]]

\* Variant: a reply that begins with "yes" counts as a yes.
check_one_prefix(fact, result) ==
  [fact EXCEPT !.is_self_contained =
     PyBool(startswith(lower(strip(result)), <<"y", "e", "s">>))]

\* One iteration of _check_with_llm: result is the judge's reply.
check_one(fact, result) ==
  [fact EXCEPT !.is_self_contained =
     PyBool(lower(strip(result)) = <<"y", "e", "s">>)]

\* Variant: the rewritten fact is built afresh from the reply instead of
\* being copied from the fact it replaces.
self_contain_one_fresh(fact, result) ==
  [fact EXCEPT !.text = strip(result), !.source_text = strip(result),
               !.is_self_contained = PyTrue]

\* One rewriting iteration of self_contain_facts: result is the judge's
\* reply.
self_contain_one(fact, result) ==
  [fact EXCEPT !.text = strip(result), !.is_self_contained = PyTrue]

\* Variant: only a fact marked False counts as not self-contained.
Truthy_unlessfalse(fact) == fact.is_self_contained # PyFalse

\* "if fact.is_self_contained" / "if not f.is_self_contained"
Truthy(fact) == fact.is_self_contained = PyTrue

non_contained_count(facts) ==
  Cardinality({n \in 1..Len(facts) : ~Truthy(facts[n])})

(***************************************************************************)
(* FactClassifier and FactualityScorer.                                    *)
(***************************************************************************)
\* Variant: the evaluation is stored without the retrieved documents.
classify_nodocs(fact, documents, result) ==
  FactEvaluation(fact, <<>>, result.category, result.confidence)

\* classify: the judge's structured reply is stored as it comes.
classify(fact, documents, result) ==
  FactEvaluation(fact, documents, result.category, result.confidence)

\* Config.scoring_rubric, the default: a rubric maps categories to weights.
default_scoring_rubric ==
  [c \in {"relevant", "irrelevant"} |->
     IF c = "relevant" THEN One ELSE Zero]

\* Config.evaluation_categories: list(self.scoring_rubric.keys())
evaluation_categories(cfg) == DOMAIN cfg.scoring_rubric

\* FactualityScorer.__init__: self.scoring_rubric = scoring_rubric or the
\* default; None and the empty rubric are both falsy.
FactualityScorer(scoring_rubric) ==
  IF DOMAIN scoring_rubric = {} THEN default_scoring_rubric
  ELSE scoring_rubric

\* self.scoring_rubric.get(category, 0.0)
category_score(scoring_rubric, category) ==
  IF category \in DOMAIN scoring_rubric THEN scoring_rubric[category]
  ELSE Zero

RECURSIVE total_score(_, _, _)
\* The sum over evaluations[1..n] of category_score * confidence.
total_score(scoring_rubric, evaluations, n) ==
  IF n = 0 THEN Zero
  ELSE RatAdd(total_score(scoring_rubric, evaluations, n - 1),
              RatMul(category_score(scoring_rubric, evaluations[n].category),
                     evaluations[n].confidence))

\* Variant: an empty evaluation list scores 1.0.
factuality_score_emptyone(scoring_rubric, evaluations) ==
  IF evaluations = <<>> THEN One
  ELSE LET t == total_score(scoring_rubric, evaluations, Len(evaluations))
       IN  Rat(t.num, t.den * Len(evaluations))

\* Variant: the mean is clamped below at 0.0.
factuality_score_clamped(scoring_rubric, evaluations) ==
  IF evaluations = <<>> THEN Zero
  ELSE LET t == total_score(scoring_rubric, evaluations, Len(evaluations))
           mean == Rat(t.num, t.den * Len(evaluations))
       IN  IF RatGeq(mean, Zero) THEN mean ELSE Zero

factuality_score(scoring_rubric, evaluations) ==
  IF evaluations = <<>> THEN Zero
  ELSE LET t == total_score(scoring_rubric, evaluations, Len(evaluations))
       IN  Rat(t.num, t.den * Len(evaluations))

\* FactualityScorer.score, scoring_rubric being self.scoring_rubric
score(scoring_rubric, response_text, context, evaluations) ==
  ResponseEvaluation(response_text, context,
                     [n \in 1..Len(evaluations) |-> evaluations[n].fact],
                     evaluations,
                     factuality_score(scoring_rubric, evaluations))

\* An injected deduplication_fn: the custom_dedupe of the tests, which
\* keeps the facts at even 0-based positions.
custom_dedupe(facts) ==
  [n \in 1..((Len(facts) + 1) \div 2) |-> facts[2 * n - 1]]

(***************************************************************************)
(* SimpleRetriever: keyword retrieval over an in-memory knowledge base.    *)
(* The knowledge base is a dict, modelled as the sequence of its           *)
(* (key, content) items in insertion order, keys distinct.  The id of a    *)
(* RetrievedDocument is a fresh uuid4 and is left out.                     *)
(***************************************************************************)
\* A character matched by \w
IsWordChar(c) ==
  c \in {"a", "b", "c", "d", "e", "f", "g", "h", "i", "j", "k", "l", "m",
         "n", "o", "p", "q", "r", "s", "t", "u", "v", "w", "x", "y", "z",
         "A", "B", "C", "D", "E", "F", "G", "H", "I", "J", "K", "L", "M",
         "N", "O", "P", "Q", "R", "S", "T", "U", "V", "W", "X", "Y", "Z",
         "0", "1", "2", "3", "4", "5", "6", "7", "8", "9", "_"}

stop_words ==
  { <<"a">>, <<"a", "n">>, <<"t", "h", "e">>, <<"i", "s">>,
    <<"a", "r", "e">>, <<"w", "a", "s">>, <<"w", "e", "r", "e">>,
    <<"i", "n">>, <<"o", "n">>, <<"a", "t">>, <<"b", "y">>,
    <<"a", "n", "d">>, <<"o", "r">>, <<"f", "o", "r">>,
    <<"w", "i", "t", "h">>, <<"t", "o">>, <<"f", "r", "o", "m">> }

RECURSIVE findall_words(_)
\* re.findall(r'\b\w+\b', s): the maximal runs of word characters
findall_words(s) ==
  LET gaps == {n \in 1..Len(s) : ~IsWordChar(s[n])}
      p == IF gaps = {} THEN Len(s) + 1 ELSE Min(gaps)
  IN  IF s = <<>> THEN <<>>
      ELSE IF p = 1 THEN findall_words(Tail(s))
      ELSE <<SubSeq(s, 1, p - 1)>> \o findall_words(From(s, p))

KeepKeyword(word) == word \notin stop_words /\ Len(word) > 2

\* SimpleRetriever._extract_keywords
_extract_keywords(text) == SelectSeq(findall_words(lower(text)), KeepKeyword)

\* "term in document" for strings
contains(document, term) ==
  \E n \in 0..(Len(document) - Len(term)) :
     SubSeq(document, n + 1, n + Len(term)) = term

\* SimpleRetriever._calculate_relevance
_calculate_relevance(query_terms, document) ==
  LET doc == lower(document)
      term_count == Cardinality({n \in 1..Len(query_terms) :
                                   contains(doc, query_terms[n])})
  IN  IF term_count = 0 THEN Zero
      ELSE Rat(term_count, Len(query_terms))

RetrievedDocument(content, source, relevance_score) ==
  [content |-> content, source |-> source,
   relevance_score |-> relevance_score]

RECURSIVE Results(_, _)
\* The loop of retrieve over knowledge_base.items(): one document for each
\* entry of positive relevance, in the order of the entries.
Results(knowledge_base, query_terms) ==
  IF knowledge_base = <<>> THEN <<>>
  ELSE LET item == Head(knowledge_base)
           relevance ==
             _calculate_relevance(query_terms,
                                  item.key \o <<" ">> \o item.content)
           rest == Results(Tail(knowledge_base), query_terms)
       IN  IF RatGt(relevance, Zero)
           THEN <<RetrievedDocument(item.content, item.key, relevance)>>
                  \o rest
           ELSE rest

\* A document put into a list sorted by non-increasing relevance, behind
\* the documents that are at least as relevant.
InsertByRelevance(sorted, d) ==
  LET ahead == {n \in 1..Len(sorted) :
                  RatGeq(sorted[n].relevance_score, d.relevance_score)}
      p == IF ahead = {} THEN 0 ELSE Max(ahead)
  IN  SubSeq(sorted, 1, p) \o <<d>> \o SubSeq(sorted, p + 1, Len(sorted))

RECURSIVE sort_reverse(_)
\* results.sort(key=lambda x: x.relevance_score, reverse=True): stable
sort_reverse(results) ==
  IF results = <<>> THEN <<>>
  ELSE InsertByRelevance(sort_reverse(SubSeq(results, 1, Len(results) - 1)),
                         results[Len(results)])

\* s[:k]
Slice(s, k) ==
  IF k >= 0 THEN SubSeq(s, 1, Min({k, Len(s)}))
  ELSE SubSeq(s, 1, Max({0, Len(s) + k}))

\* Variant: the results are cut to top_k as found, without sorting.
retrieve_unsorted(text, knowledge_base, top_k) ==
  Slice(Results(knowledge_base, _extract_keywords(text)), top_k)

\* SimpleRetriever.retrieve
retrieve(text, knowledge_base, top_k) ==
  Slice(sort_reverse(Results(knowledge_base, _extract_keywords(text))), top_k)

(***************************************************************************)
(* State.                                                                  *)
(***************************************************************************)
VARIABLES
  sa, sb,        \* similarity harness: the two texts
  sab, sba,      \* similarity harness: sim(sa, sb), sim(sb, sa)
  spc,           \* similarity harness: position
  dfacts,        \* deduplication harness: the input fact list
  dthr,          \* deduplication harness: the similarity threshold
  dout,          \* deduplicate_facts(dfacts, dthr)
  dagain,        \* deduplicate_facts(dout, dthr)
  dthr2,         \* a second threshold, dthr <= dthr2
  dout2,         \* deduplicate_facts(dfacts, dthr2)
  dpc,           \* deduplication harness: position
  config,        \* the pipeline's collaborators, fixed at construction
  response,      \* run: the response text
  context,       \* run: the context text, or NoContext
  pc,            \* run: the next step of the coroutine
  facts,         \* run: the local variable facts
  updated_facts, \* containment checker: the list being built
  loop_index,    \* containment checker: position of the loop over facts
  fact_index,    \* run: position of the loop over facts (1-based)
  documents,     \* run: the documents retrieved for facts[i]
  evaluations,   \* run: the local variable evaluations
  returned,      \* what the caller got back: <<>> or <<ResponseEvaluation>>
  error,         \* the exception the caller got, or None
  calls,         \* history: the stage invocations made by run, in order
  capcalls,      \* history: the capability calls made, in order
  deduplicated,  \* history: what the deduplication function returned
  given,         \* checker harness: the fact list the checker was handed
  passed,        \* the list handed to the stage called last, as handed over
  live,          \* the records of that list as the caller holds them now
  etext,         \* extraction harness: the text under test
  ebasic,        \* extraction harness: _extract_basic(etext)
  ellm,          \* extraction harness: _extract_with_llm(.., etext)
  epc,           \* extraction harness: position
  rtext,         \* retrieval harness: the text of the fact
  knowledge_base,\* retrieval harness: the retriever's knowledge base
  top_k,         \* retrieval harness: the retriever's top_k
  rout,          \* retrieval harness: retrieve(fact)
  rpc,           \* retrieval harness: position
  runs           \* concurrency harness: the frames of the calls of run

simvars == <<sa, sb, sab, sba, spc>>
dedupvars == <<dfacts, dthr, dout, dagain, dthr2, dout2, dpc>>
runvars == <<config, response, context, pc, facts, updated_facts, loop_index,
             fact_index,
             documents, evaluations, returned, error, calls, capcalls,
             deduplicated>>
retrievevars == <<rtext, knowledge_base, top_k, rout, rpc>>
checkervars == <<given, passed, live>>
extractvars == <<etext, ebasic, ellm, epc>>
concvars == <<runs>>
harnessvars == <<checkervars, extractvars, retrievevars, concvars>>
vars == <<simvars, dedupvars, runvars, harnessvars>>

IdleRetrieve ==
  /\ rtext = <<>>
  /\ knowledge_base = <<>>
  /\ top_k = 3
  /\ rout = <<>>
  /\ rpc = "idle"

IdleChecker ==
  /\ given = <<>>
  /\ passed = <<>>
  /\ live = <<>>

IdleExtract ==
  /\ etext = <<>>
  /\ ebasic = <<>>
  /\ ellm = <<>>
  /\ epc = "idle"

IdleConcurrent == runs = <<>>

IdleHarness ==
  /\ IdleChecker
  /\ IdleExtract
  /\ IdleRetrieve
  /\ IdleConcurrent

IdleRun ==
  /\ config = [extractor_llm |-> FALSE, containment_checker |-> None,
               deduplication_fn |-> "deduplicate_facts",
               scoring_rubric |-> default_scoring_rubric,
               scorer |-> default_scoring_rubric]
  /\ response = <<>>
  /\ context = NoContext
  /\ pc = "idle"
  /\ facts = <<>>
  /\ updated_facts = <<>>
  /\ loop_index = 0
  /\ fact_index = 0
  /\ documents = <<>>
  /\ evaluations = <<>>
  /\ returned = <<>>
  /\ error = None
  /\ calls = <<>>
  /\ capcalls = <<>>
  /\ deduplicated = <<>>

IdleSim ==
  /\ sa = <<>>
  /\ sb = <<>>
  /\ sab = None
  /\ sba = None
  /\ spc = "idle"

IdleDedup ==
  /\ dfacts = <<>>
  /\ dthr = DefaultThreshold
  /\ dout = None
  /\ dagain = None
  /\ dthr2 = None
  /\ dout2 = None
  /\ dpc = "idle"

(***************************************************************************)
(* Similarity harness: _calculate_similarity on all bounded text pairs.    *)
(***************************************************************************)
Alphabet == {"a", "b", "A"}
SimTexts == UNION {[1..n -> Alphabet] : n \in 0..MaxTextLen}

InitSim ==
  /\ IdleDedup
  /\ IdleRun
  /\ IdleHarness
  /\ sa \in SimTexts
  /\ sb \in SimTexts
  /\ sab = None
  /\ sba = None
  /\ spc = "init"

CalculateSimilarity ==
  /\ spc = "init"
  /\ sab' = _calculate_similarity(sa, sb)
  /\ sba' = _calculate_similarity(sb, sa)
  /\ spc' = "done"
  /\ UNCHANGED <<sa, sb>>
  /\ UNCHANGED <<dedupvars, runvars, harnessvars>>

NextSim == CalculateSimilarity

SpecSim == InitSim /\ [][NextSim]_vars

(***************************************************************************)
(* Deduplication harness: deduplicate_facts on bounded fact lists, applied *)
(* once, applied again to its own output, and applied at a second, higher  *)
(* threshold.                                                              *)
(***************************************************************************)
DedupTexts ==
  { <<"a", "a">>, <<"a", "b">>, <<"b">>, <<"a", "b", "b", "b">>,
    <<"A", "B">>, <<"b", "b", "a", "b">> }

Thresholds == {Zero, Rat(1, 2), Rat(2, 3), DefaultThreshold, One}

SampleSource == <<"s">>

FactLists ==
  UNION { { [i \in 1..n |-> AtomicFact(i, t[i], SampleSource)] :
              t \in [1..n -> DedupTexts] } : n \in 0..MaxFacts }

InitDedup ==
  /\ IdleSim
  /\ IdleRun
  /\ IdleHarness
  /\ dfacts \in FactLists
  /\ dthr \in Thresholds
  /\ dout = None
  /\ dagain = None
  /\ dthr2 = None
  /\ dout2 = None
  /\ dpc = "init"

Deduplicate ==
  /\ dpc = "init"
  /\ dout' = deduplicate_facts(dfacts, dthr)
  /\ dpc' = "once"
  /\ UNCHANGED <<dfacts, dthr, dagain, dthr2, dout2>>
  /\ UNCHANGED <<simvars, runvars, harnessvars>>

DeduplicateAgain ==
  /\ dpc = "once"
  /\ dagain' = deduplicate_facts(dout, dthr)
  /\ dpc' = "twice"
  /\ UNCHANGED <<dfacts, dthr, dout, dthr2, dout2>>
  /\ UNCHANGED <<simvars, runvars, harnessvars>>

DeduplicateRaised ==
  /\ dpc = "twice"
  /\ \E t2 \in Thresholds :
       /\ RatGeq(t2, dthr)
       /\ dthr2' = t2
       /\ dout2' = deduplicate_facts(dfacts, t2)
  /\ dpc' = "done"
  /\ UNCHANGED <<dfacts, dthr, dout, dagain>>
  /\ UNCHANGED <<simvars, runvars, harnessvars>>

NextDedup == Deduplicate \/ DeduplicateAgain \/ DeduplicateRaised

SpecDedup == InitDedup /\ [][NextDedup]_vars

(***************************************************************************)
(* EvaluationPipeline.run.  One action per stage invocation; the stages    *)
(* that call a capability once per fact take one step per call, each call  *)
(* being a suspension point that may also raise.                           *)
(***************************************************************************)
Responses ==
  { <<"a", "b", ".", " ", "A", "B", ".", " ", "b", ".">>,
    <<"a", " ", "b", ".", " ", "a">>,
    <<" ", ".", " ">> }

Contexts == {NoContext, <<"c">>}

\* Replies of the claim generator to the extraction prompt.
GeneratorReplies ==
  { <<"-", " ", "a", "b", "\n", "-", " ", "A", "B", "\n", "*", " ", "b">>,
    <<"1", ".", " ", "a", " ", "b", "\n", "\n", "2", ".", " ", "a", "\n">>,
    <<" ", "\n">> }

\* Replies of the claim judge to the yes/no prompt.
JudgeAnswers == { <<"Y", "e", "s", "\n">>, <<"n", "o">>, <<"y", "e", "s", ".">> }

\* Replies of the claim judge to the rewrite prompt.
JudgeRewrites == { <<" ", "a", " ", "b">>, <<" ">> }

\* Document lists the retriever may return.
DocumentLists == { <<>>, <<"d1">>, <<"d2", "d1">> }

\* Structured replies of the claim judge to the classification prompt:
\* json.loads of whatever the model wrote, the schema being part of the
\* prompt only.
JudgeResults ==
  { [category |-> "relevant", confidence |-> Rat(9, 10)],
    [category |-> "irrelevant", confidence |-> One],
    [category |-> "relevant", confidence |-> Rat(3, 2)],
    [category |-> "unknown", confidence |-> Rat(1, 2)] }

\* A rubric other than the default, as the examples and tests configure it.
custom_scoring_rubric ==
  [c \in {"supported", "contradicted", "unverifiable"} |->
     CASE c = "supported" -> One
       [] c = "contradicted" -> Zero
       [] c = "unverifiable" -> Rat(1, 2)]

\* Config(scoring_rubric=...) of the pipeline and of its classifier.
ConfigRubrics == {default_scoring_rubric, custom_scoring_rubric}

\* FactualityScorer() of the pipeline's scorer: the default rubric.
ScorerRubrics == {FactualityScorer(default_scoring_rubric)}

Configs ==
  [extractor_llm : BOOLEAN,
   containment_checker : {None, "basic", "llm"},
   deduplication_fn : {"deduplicate_facts", "custom_dedupe"},
   scoring_rubric : ConfigRubrics,
   scorer : ScorerRubrics]

Init ==
  /\ IdleSim
  /\ IdleDedup
  /\ IdleHarness
  /\ config \in Configs
  /\ response \in Responses
  /\ context \in Contexts
  /\ pc = "extract"
  /\ facts = <<>>
  /\ updated_facts = <<>>
  /\ loop_index = 0
  /\ fact_index = 0
  /\ documents = <<>>
  /\ evaluations = <<>>
  /\ returned = <<>>
  /\ error = None
  /\ calls = <<>>
  /\ capcalls = <<>>
  /\ deduplicated = <<>>

Call(op, id) == [op |-> op, fact |-> id]
\* A capability call: who was called, in which stage, for which fact,
\* whether it returned, and the documents or rewrite it returned.
CapCall(cap, stage, id, ok, result) ==
  [cap |-> cap, stage |-> stage, fact |-> id, ok |-> ok, result |-> result]

\* Variant: a failure while a fact is retrieved or classified is swallowed
\* and the run goes on to score what it has.
OnRaise_salvage(stage) ==
  IF stage \in {"retrieve", "classify"} THEN "score" ELSE "failed"

\* run has no exception handler: an exception raised by a call it awaits
\* ends the run there and reaches the caller.
OnRaise(stage) == "failed"

\* Variant: the containment stage is entered whether or not a checker is
\* configured.
AfterExtract_always(cfg) == "check"

\* "if self.containment_checker:" after extraction.
AfterExtract(cfg) ==
  IF cfg.containment_checker # None THEN "check" ELSE "dedup"

\* Variant: the copy is written through to the record it was made from.
copied_from_inplace(fact, copy) == copy

\* fact.model_copy(update=...) builds a new record; the record it was
\* called on keeps its field values.
copied_from(fact, copy) == fact

\* Variant: the resolve stage is never entered.
AfterCheck_never(checked) == "dedup"

\* "if non_contained_count > 0:" after check_containment.
AfterCheck(checked) ==
  IF non_contained_count(checked) > 0 THEN "resolve" ELSE "dedup"

\* The loop "for i, fact in enumerate(facts)": the step after position n
\* of a list of the given length has been dealt with.
AfterFact(n, length) == IF n < length THEN "retrieve" ELSE "score"

\* A capability call raises: the run is over, nothing is returned.
Raise(cap, stage, id) ==
  /\ capcalls' = Append(capcalls, CapCall(cap, stage, id, FALSE, <<>>))
  /\ pc' = OnRaise(stage)
  /\ error' = "CapabilityFailure"

\* Step 1: facts = await self.extractor.extract_facts(response, context)
ExtractFacts ==
  /\ pc = "extract"
  /\ calls' = Append(calls, Call("extract_facts", 0))
  /\ IF config.extractor_llm
     THEN \/ \E result \in GeneratorReplies :
               /\ facts' = _extract_with_llm(response, result)
               /\ capcalls' =
                    Append(capcalls, CapCall("generator", "extract", 0, TRUE,
                            <<>>))
               /\ pc' = AfterExtract(config)
               /\ UNCHANGED error
          \/ /\ Raise("generator", "extract", 0)
             /\ UNCHANGED facts
     ELSE /\ facts' = _extract_basic(response)
          /\ pc' = AfterExtract(config)
          /\ UNCHANGED <<capcalls, error>>
  /\ UNCHANGED <<config, response, context, updated_facts, loop_index,
                 fact_index, documents,
                 evaluations, returned, deduplicated>>
  /\ UNCHANGED <<simvars, dedupvars, harnessvars>>

\* Step 2a: facts = await self.containment_checker.check_containment(...)
\* Without a judge the basic check answers at once; with a judge the loop
\* of _check_with_llm starts (and is over at once for an empty list).
CheckContainment ==
  /\ pc = "check"
  /\ calls' = Append(calls, Call("check_containment", 0))
  /\ IF config.containment_checker = "basic"
     THEN /\ facts' = _check_basic(facts, response)
          /\ live' = [n \in 1..Len(facts) |-> copied_from(facts[n], facts'[n])]
          /\ pc' = AfterCheck(facts')
          /\ UNCHANGED <<updated_facts, loop_index>>
     ELSE IF facts = <<>>
          THEN /\ pc' = AfterCheck(facts)
               /\ live' = facts
               /\ UNCHANGED <<facts, updated_facts, loop_index>>
          ELSE /\ pc' = "check_llm"
               /\ updated_facts' = <<>>
               /\ loop_index' = 1
               /\ live' = facts
               /\ UNCHANGED facts
  /\ passed' = facts
  /\ UNCHANGED <<config, response, context, fact_index, documents, evaluations,
                 returned, error, capcalls, deduplicated>>
  /\ UNCHANGED <<given, simvars, dedupvars, extractvars, retrievevars,
                 concvars>>

\* One iteration of _check_with_llm: result = await self.llm.generate(...)
CheckWithLLM ==
  /\ pc = "check_llm"
  /\ \/ \E result \in JudgeAnswers :
          LET updated_fact == check_one(facts[loop_index], result)
              done == Append(updated_facts, updated_fact)
          IN  /\ capcalls' = Append(capcalls,
                                    CapCall("judge", "check",
                                    facts[loop_index].id, TRUE, result))
              /\ live' = [live EXCEPT ![loop_index] =
                                        copied_from(@, updated_fact)]
              /\ IF loop_index < Len(facts)
                 THEN /\ updated_facts' = done
                      /\ loop_index' = loop_index + 1
                      /\ UNCHANGED <<facts, pc>>
                 ELSE /\ facts' = done
                      /\ pc' = AfterCheck(done)
                      /\ updated_facts' = <<>>
                      /\ loop_index' = 0
              /\ UNCHANGED error
     \/ /\ Raise("judge", "check", facts[loop_index].id)
        /\ UNCHANGED <<facts, updated_facts, loop_index, live>>
  /\ UNCHANGED <<config, response, context, fact_index, documents, evaluations,
                 returned, calls, deduplicated, passed>>
  /\ UNCHANGED <<given, simvars, dedupvars, extractvars, retrievevars,
                 concvars>>

\* The facts of a list from position n on that need no rewriting, up to the
\* next one that does: the loop of self_contain_facts appends them without
\* suspending.
NextNonContained(fs, n) ==
  LET open == {m \in n..Len(fs) : ~Truthy(fs[m])}
  IN  IF open = {} THEN Len(fs) + 1 ELSE Min(open)

\* Step 2b: facts = await self.containment_checker.self_contain_facts(...)
\* Without a judge the facts come back unchanged; with a judge the loop
\* starts and runs up to its first rewrite request, or to the end of the
\* list when no fact needs rewriting.
SelfContainFacts ==
  /\ pc = "resolve"
  /\ calls' = Append(calls, Call("self_contain_facts", 0))
  /\ IF config.containment_checker = "basic"
     THEN /\ pc' = "dedup"
          /\ UNCHANGED <<updated_facts, loop_index>>
     ELSE LET n == NextNonContained(facts, 1)
          IN  IF n <= Len(facts)
              THEN /\ updated_facts' = SubSeq(facts, 1, n - 1)
                   /\ loop_index' = n
                   /\ pc' = "resolve_llm"
              ELSE /\ pc' = "dedup"
                   /\ UNCHANGED <<updated_facts, loop_index>>
  /\ passed' = facts
  /\ live' = facts
  /\ UNCHANGED <<config, response, context, facts, fact_index, documents,
                 evaluations,
                 returned, error, capcalls, deduplicated>>
  /\ UNCHANGED <<given, simvars, dedupvars, extractvars, retrievevars,
                 concvars>>

\* One rewriting iteration of self_contain_facts:
\* result = await self.llm.generate(prompt), then on to the next fact that
\* needs rewriting, or to the end of the list.
SelfContainWithLLM ==
  /\ pc = "resolve_llm"
  /\ \/ \E result \in JudgeRewrites :
          LET n == NextNonContained(facts, loop_index + 1)
              updated_fact == self_contain_one(facts[loop_index], result)
              done == Append(updated_facts, updated_fact)
                        \o SubSeq(facts, loop_index + 1, n - 1)
          IN  /\ capcalls' = Append(capcalls,
                                    CapCall("judge", "resolve",
                                    facts[loop_index].id, TRUE, result))
              /\ live' = [live EXCEPT ![loop_index] =
                                        copied_from(@, updated_fact)]
              /\ IF n <= Len(facts)
                 THEN /\ updated_facts' = done
                      /\ loop_index' = n
                      /\ UNCHANGED <<facts, pc>>
                 ELSE /\ facts' = done
                      /\ pc' = "dedup"
                      /\ updated_facts' = <<>>
                      /\ loop_index' = 0
              /\ UNCHANGED error
     \/ /\ Raise("judge", "resolve", facts[loop_index].id)
        /\ UNCHANGED <<facts, updated_facts, loop_index, live>>
  /\ UNCHANGED <<config, response, context, fact_index, documents, evaluations,
                 returned, calls, deduplicated, passed>>
  /\ UNCHANGED <<given, simvars, dedupvars, extractvars, retrievevars,
                 concvars>>

\* Variant: the default deduplicator runs whatever was injected.
deduplication_fn_default(cfg, fs) == deduplicate_facts(fs, DefaultThreshold)

\* self.deduplication_fn = deduplication_fn or deduplicate_facts
deduplication_fn(cfg, fs) ==
  IF cfg.deduplication_fn = "custom_dedupe" THEN custom_dedupe(fs)
  ELSE deduplicate_facts(fs, DefaultThreshold)

\* Step 3: facts = self.deduplication_fn(facts); evaluations = []
Deduplication ==
  /\ pc = "dedup"
  /\ calls' = Append(calls, Call(config.deduplication_fn, 0))
  /\ facts' = deduplication_fn(config, facts)
  /\ deduplicated' = facts'
  /\ evaluations' = <<>>
  /\ fact_index' = 1
  /\ pc' = AfterFact(0, Len(facts'))
  /\ passed' = facts
  /\ live' = facts
  /\ UNCHANGED <<config, response, context, updated_facts, loop_index,
                 documents,
                 returned, error, capcalls>>
  /\ UNCHANGED <<given, simvars, dedupvars, extractvars, retrievevars,
                 concvars>>

\* Step 5: documents = await self.retriever.retrieve(fact)
Retrieve ==
  /\ pc = "retrieve"
  /\ calls' = Append(calls, Call("retrieve", facts[fact_index].id))
  /\ \/ \E docs \in DocumentLists :
          /\ documents' = docs
          /\ capcalls' = Append(capcalls,
                                CapCall("retriever", "retrieve",
                                        facts[fact_index].id, TRUE, docs))
          /\ pc' = "classify"
          /\ UNCHANGED error
     \/ /\ Raise("retriever", "retrieve", facts[fact_index].id)
        /\ UNCHANGED documents
  /\ UNCHANGED <<config, response, context, facts, updated_facts, loop_index,
                 fact_index,
                 evaluations, returned, deduplicated>>
  /\ UNCHANGED <<simvars, dedupvars, harnessvars>>

\* Step 6: evaluation = await self.classifier.classify(fact, documents);
\* evaluations.append(evaluation)
Classify ==
  /\ pc = "classify"
  /\ calls' = Append(calls, Call("classify", facts[fact_index].id))
  /\ \/ \E result \in JudgeResults :
          /\ evaluations' =
               Append(evaluations,
                      classify(facts[fact_index], documents, result))
          /\ capcalls' = Append(capcalls,
                                CapCall("judge", "classify",
                                    facts[fact_index].id, TRUE, <<>>))
          /\ fact_index' = fact_index + 1
          /\ pc' = AfterFact(fact_index, Len(facts))
          /\ UNCHANGED error
     \/ /\ Raise("judge", "classify", facts[fact_index].id)
        /\ UNCHANGED <<evaluations, fact_index>>
  /\ UNCHANGED <<config, response, context, facts, updated_facts, loop_index,
                 documents, returned, deduplicated>>
  /\ UNCHANGED <<simvars, dedupvars, harnessvars>>

\* Step 7: result = self.scorer.score(response, context, evaluations);
\* return result.  Building the ResponseEvaluation validates its fields.
Score ==
  /\ pc = "score"
  /\ calls' = Append(calls, Call("score", 0))
  /\ IF ResponseEvaluationValid(context)
     THEN /\ returned' =
               <<score(config.scorer, response, context, evaluations)>>
          /\ pc' = "done"
          /\ UNCHANGED error
     ELSE /\ pc' = "failed"
          /\ error' = "ValidationError"
          /\ UNCHANGED returned
  /\ UNCHANGED <<config, response, context, facts, updated_facts, loop_index,
                 fact_index,
                 documents, evaluations, capcalls, deduplicated>>
  /\ UNCHANGED <<simvars, dedupvars, harnessvars>>

Next ==
  \/ ExtractFacts
  \/ CheckContainment
  \/ CheckWithLLM
  \/ SelfContainFacts
  \/ SelfContainWithLLM
  \/ Deduplication
  \/ Retrieve
  \/ Classify
  \/ Score

Spec == Init /\ [][Next]_vars

(***************************************************************************)
(* Checker harness: the basic check_containment and self_contain_facts as  *)
(* run calls them, handed bounded fact lists whose is_self_contained is    *)
(* None, True or False.                                                    *)
(***************************************************************************)
CheckerTexts == { <<"a", " ", "b">>, <<"B">>, <<"a">> }

CheckerResponses ==
  { <<"a", " ", " ", "B">>, <<"b", ".", " ", "a">> }

CheckerFlags == {None, PyTrue, PyFalse}

CheckerFacts(source) ==
  UNION { { [i \in 1..n |->
               [AtomicFact(i, t[i], source)
                  EXCEPT !.is_self_contained = f[i]]] :
              t \in [1..n -> CheckerTexts],
              f \in [1..n -> CheckerFlags] } : n \in 0..MaxGiven }

InitChecker ==
  /\ IdleSim
  /\ IdleDedup
  /\ \E checker \in {"basic", "llm"} :
       config = [extractor_llm |-> FALSE, containment_checker |-> checker,
                 deduplication_fn |-> "deduplicate_facts",
                 scoring_rubric |-> default_scoring_rubric,
                 scorer |-> default_scoring_rubric]
  /\ response \in CheckerResponses
  /\ context = <<"c">>
  /\ \/ pc = "check" /\ config.containment_checker = "basic"
     \/ pc = "resolve"
  /\ facts \in CheckerFacts(response)
  /\ given = facts
  /\ updated_facts = <<>>
  /\ loop_index = 0
  /\ fact_index = 0
  /\ documents = <<>>
  /\ evaluations = <<>>
  /\ returned = <<>>
  /\ error = None
  /\ calls = <<>>
  /\ capcalls = <<>>
  /\ deduplicated = <<>>
  /\ passed = <<>>
  /\ live = <<>>
  /\ IdleExtract
  /\ IdleRetrieve
  /\ IdleConcurrent

NextChecker ==
  \/ CheckContainment
  \/ SelfContainFacts
  \/ SelfContainWithLLM

SpecChecker == InitChecker /\ [][NextChecker]_vars

(***************************************************************************)
(* Extraction harness: _extract_basic applied to every bounded text as the *)
(* response, and the parsing of _extract_with_llm applied to the same text *)
(* as the generator's reply.                                               *)
(***************************************************************************)
ExtractAlphabet == {"a", ".", " ", "\n", "-", "*", "1"}
ExtractTexts == UNION {[1..n -> ExtractAlphabet] : n \in 0..MaxReplyLen}

\* The response handed to _extract_with_llm.
ExtractResponse == <<"r", ".">>

InitExtract ==
  /\ IdleSim
  /\ IdleDedup
  /\ IdleRun
  /\ IdleChecker
  /\ IdleRetrieve
  /\ IdleConcurrent
  /\ etext \in ExtractTexts
  /\ ebasic = <<>>
  /\ ellm = <<>>
  /\ epc = "init"

\* sentences -> facts of _extract_basic(response), response = etext
ExtractBasic ==
  /\ epc = "init"
  /\ ebasic' = _extract_basic(etext)
  /\ epc' = "basic"
  /\ UNCHANGED <<etext, ellm>>
  /\ UNCHANGED <<simvars, dedupvars, runvars, checkervars, retrievevars,
                 concvars>>

\* result = await self.llm.generate(prompt) with result = etext, and the
\* parsing that follows
ExtractWithLLM ==
  /\ epc = "basic"
  /\ ellm' = _extract_with_llm(ExtractResponse, etext)
  /\ epc' = "done"
  /\ UNCHANGED <<etext, ebasic>>
  /\ UNCHANGED <<simvars, dedupvars, runvars, checkervars, retrievevars,
                 concvars>>

NextExtract == ExtractBasic \/ ExtractWithLLM

SpecExtract == InitExtract /\ [][NextExtract]_vars

(***************************************************************************)
(* Scorer harness: the last step of run, FactualityScorer.score, applied   *)
(* to bounded evaluation lists under several rubrics.                      *)
(***************************************************************************)
\* A rubric with a negative weight.
penalty_scoring_rubric ==
  [c \in {"relevant", "irrelevant"} |->
     IF c = "relevant" THEN Rat(1, 2) ELSE Rat(-1, 1)]

\* No rubric given (None or {}): the constructor falls back to the default.
no_scoring_rubric == [c \in {} |-> Zero]

\* Arguments of FactualityScorer(scoring_rubric=...).
ScoreRubricArgs ==
  {no_scoring_rubric, penalty_scoring_rubric, custom_scoring_rubric}

ScoreCategories == {"relevant", "irrelevant", "unknown"}
ScoreConfidences == {Rat(1, 2), One}
ScoreResponse == <<"r">>

\* Evaluation lists as the loop of run builds them: one per fact.
ScoreEvaluations ==
  UNION { { [i \in 1..n |->
               FactEvaluation(AtomicFact(i, <<"a">>, ScoreResponse), <<>>,
                              c[i], w[i])] :
              c \in [1..n -> ScoreCategories],
              w \in [1..n -> ScoreConfidences] } : n \in 0..MaxFacts }

InitScore ==
  /\ IdleSim
  /\ IdleDedup
  /\ IdleHarness
  /\ \E arg \in ScoreRubricArgs :
       config = [extractor_llm |-> FALSE, containment_checker |-> None,
                 deduplication_fn |-> "deduplicate_facts",
                 scoring_rubric |-> default_scoring_rubric,
                 scorer |-> FactualityScorer(arg)]
  /\ response = ScoreResponse
  /\ context \in Contexts
  /\ pc = "score"
  /\ evaluations \in ScoreEvaluations
  /\ facts = [n \in 1..Len(evaluations) |-> evaluations[n].fact]
  /\ deduplicated = facts
  /\ updated_facts = <<>>
  /\ loop_index = 0
  /\ fact_index = Len(evaluations) + 1
  /\ documents = <<>>
  /\ returned = <<>>
  /\ error = None
  /\ calls = <<>>
  /\ capcalls = <<>>

NextScore == Score

SpecScore == InitScore /\ [][NextScore]_vars

(***************************************************************************)
(* Retrieval harness: SimpleRetriever.retrieve on bounded knowledge bases, *)
(* fact texts and values of top_k (3 unless retrieval_config sets it).     *)
(***************************************************************************)
RetrieveTexts ==
  { <<"B", "a", "y", " ", "b", "a", "r">>,
    <<"t", "h", "e", " ", "b", "a", "y">>,
    <<"b", "e", "e", "-", "b", "e", "e", " ", "b", "a", "r", " ", "a", "b">>,
    <<"b", "a", "y", ",", "b", "a", "r", ",", "b", "e", "e", ".">>,
    <<"a", "r", "e", " ", "a", "b">> }

KnowledgeEntries ==
  { [key |-> <<"b", "a", "y">>, content |-> <<"A", " ", "b", "a", "y">>],
    [key |-> <<"b", "e", "e">>, content |-> <<"B", "a", "r", "b">>],
    [key |-> <<"t", "e", "a">>, content |-> <<"a", " ", "B", "E", "E">>],
    [key |-> <<"a", "b">>, content |-> <<"t", "h", "e", " ", "a", "r", "e">>] }

\* The dicts of at most MaxEntries of these entries, as item sequences.
KnowledgeBases ==
  UNION { { kb \in [1..n -> KnowledgeEntries] :
              \A a, b \in 1..n : a # b => kb[a].key # kb[b].key } :
          n \in 0..MaxEntries }

InitRetrieve ==
  /\ IdleSim
  /\ IdleDedup
  /\ IdleRun
  /\ IdleChecker
  /\ IdleExtract
  /\ IdleConcurrent
  /\ rtext \in RetrieveTexts
  /\ knowledge_base \in KnowledgeBases
  /\ top_k \in 0..MaxTopK
  /\ rout = <<>>
  /\ rpc = "init"

\* documents = await retriever.retrieve(fact), fact.text = rtext
RetrieveDocuments ==
  /\ rpc = "init"
  /\ rout' = retrieve(rtext, knowledge_base, top_k)
  /\ rpc' = "done"
  /\ UNCHANGED <<rtext, knowledge_base, top_k>>
  /\ UNCHANGED <<simvars, dedupvars, runvars, checkervars, extractvars,
                 concvars>>

NextRetrieve == RetrieveDocuments

SpecRetrieve == InitRetrieve /\ [][NextRetrieve]_vars

(***************************************************************************)
(* Concurrency harness: two calls of run on one pipeline object,           *)
(* interleaved at their suspension points.  The pipeline object holds its  *)
(* collaborators (config below); facts, evaluations and the loop positions *)
(* are local variables of run and live in the frame of each call.  A call  *)
(* keeps the replies its capabilities gave it in answers, and overlapped   *)
(* records that it took a step while the other call was under way.         *)
(***************************************************************************)
RunIds == {1, 2}

ConcurrentResponses == { <<"a", " ", "b", ".", " ", "a">>, <<"B", ".">> }

ConcurrentConfigs ==
  {c \in Configs : /\ ~c.extractor_llm
                   /\ c.deduplication_fn = "deduplicate_facts"
                   /\ c.scoring_rubric = default_scoring_rubric}

NoJudged == [category |-> None, confidence |-> Zero]

\* What a capability call gave back: a reply text, a document list or a
\* classification, or an exception (ok = FALSE).
Answer(ok, text, docs, judged) ==
  [ok |-> ok, text |-> text, docs |-> docs, judged |-> judged]

NoAnswer == Answer(TRUE, <<>>, <<>>, NoJudged)
Raised == Answer(FALSE, <<>>, <<>>, NoJudged)

\* The replies a call may get at its next step.
Answers(cfg, frame) ==
  CASE frame.pc = "extract" /\ cfg.extractor_llm ->
         {Answer(TRUE, t, <<>>, NoJudged) : t \in GeneratorReplies}
           \cup {Raised}
    [] frame.pc = "check_llm" ->
         {Answer(TRUE, t, <<>>, NoJudged) :
            t \in { <<"Y", "e", "s", "\n">>, <<"n", "o">> }} \cup {Raised}
    [] frame.pc = "resolve_llm" ->
         {Answer(TRUE, t, <<>>, NoJudged) : t \in { <<" ", "a", " ", "b">> }}
           \cup {Raised}
    [] frame.pc = "retrieve" ->
         {Answer(TRUE, <<>>, d, NoJudged) : d \in { <<>>, <<"d1">> }}
           \cup {Raised}
    [] frame.pc = "classify" ->
         {Answer(TRUE, <<>>, <<>>, j) :
            j \in { [category |-> "relevant", confidence |-> Rat(9, 10)],
                    [category |-> "irrelevant", confidence |-> One] }}
           \cup {Raised}
    [] OTHER -> {NoAnswer}

\* The frame of a call of run(response, context) before its first step.
NewFrame(resp, ctx) ==
  [response |-> resp, context |-> ctx, pc |-> "extract", facts |-> <<>>,
   updated_facts |-> <<>>, loop_index |-> 0, fact_index |-> 0,
   documents |-> <<>>, evaluations |-> <<>>, returned |-> <<>>,
   error |-> None, answers |-> <<>>, overlapped |-> FALSE]

\* The awaited call raised: the exception leaves run.
Raising(frame) ==
  [frame EXCEPT !.pc = OnRaise(frame.pc), !.error = "CapabilityFailure"]

\* One step of run on a frame, given what the capability replied: the
\* stages of EvaluationPipeline.run as in the actions above.
RunStep(cfg, frame, answer) ==
  CASE frame.pc = "extract" ->
         IF cfg.extractor_llm /\ ~answer.ok THEN Raising(frame)
         ELSE [frame EXCEPT
                 !.facts = IF cfg.extractor_llm
                           THEN _extract_with_llm(frame.response, answer.text)
                           ELSE _extract_basic(frame.response),
                 !.pc = AfterExtract(cfg)]
    [] frame.pc = "check" ->
         IF cfg.containment_checker = "basic"
         THEN LET checked == _check_basic(frame.facts, frame.response)
              IN  [frame EXCEPT !.facts = checked, !.pc = AfterCheck(checked)]
         ELSE IF frame.facts = <<>>
              THEN [frame EXCEPT !.pc = AfterCheck(frame.facts)]
              ELSE [frame EXCEPT !.pc = "check_llm", !.updated_facts = <<>>,
                                 !.loop_index = 1]
    [] frame.pc = "check_llm" ->
         IF ~answer.ok THEN Raising(frame)
         ELSE LET done == Append(frame.updated_facts,
                                 check_one(frame.facts[frame.loop_index],
                                           answer.text))
              IN  IF frame.loop_index < Len(frame.facts)
                  THEN [frame EXCEPT !.updated_facts = done,
                                     !.loop_index = frame.loop_index + 1]
                  ELSE [frame EXCEPT !.facts = done, !.pc = AfterCheck(done),
                                     !.updated_facts = <<>>, !.loop_index = 0]
    [] frame.pc = "resolve" ->
         IF cfg.containment_checker = "basic"
         THEN [frame EXCEPT !.pc = "dedup"]
         ELSE LET n == NextNonContained(frame.facts, 1)
              IN  IF n <= Len(frame.facts)
                  THEN [frame EXCEPT
                          !.updated_facts = SubSeq(frame.facts, 1, n - 1),
                          !.loop_index = n, !.pc = "resolve_llm"]
                  ELSE [frame EXCEPT !.pc = "dedup"]
    [] frame.pc = "resolve_llm" ->
         IF ~answer.ok THEN Raising(frame)
         ELSE LET n == NextNonContained(frame.facts, frame.loop_index + 1)
                  done ==
                    Append(frame.updated_facts,
                           self_contain_one(frame.facts[frame.loop_index],
                                            answer.text))
                      \o SubSeq(frame.facts, frame.loop_index + 1, n - 1)
              IN  IF n <= Len(frame.facts)
                  THEN [frame EXCEPT !.updated_facts = done, !.loop_index = n]
                  ELSE [frame EXCEPT !.facts = done, !.pc = "dedup",
                                     !.updated_facts = <<>>, !.loop_index = 0]
    [] frame.pc = "dedup" ->
         LET unique == deduplication_fn(cfg, frame.facts)
         IN  [frame EXCEPT !.facts = unique, !.evaluations = <<>>,
                           !.fact_index = 1,
                           !.pc = AfterFact(0, Len(unique))]
    [] frame.pc = "retrieve" ->
         IF ~answer.ok THEN Raising(frame)
         ELSE [frame EXCEPT !.documents = answer.docs, !.pc = "classify"]
    [] frame.pc = "classify" ->
         IF ~answer.ok THEN Raising(frame)
         ELSE [frame EXCEPT
                 !.evaluations =
                    Append(frame.evaluations,
                           classify(frame.facts[frame.fact_index],
                                    frame.documents, answer.judged)),
                 !.fact_index = frame.fact_index + 1,
                 !.pc = AfterFact(frame.fact_index, Len(frame.facts))]
    [] frame.pc = "score" ->
         IF ResponseEvaluationValid(frame.context)
         THEN [frame EXCEPT
                 !.returned = <<score(cfg.scorer, frame.response,
                                      frame.context, frame.evaluations)>>,
                 !.pc = "done"]
         ELSE [frame EXCEPT !.pc = "failed", !.error = "ValidationError"]
    [] OTHER -> frame

\* Variant: the evaluations list is an attribute of the pipeline object,
\* which every call of run uses.
evaluations_home_shared(r) == 1

\* "evaluations = []" in run binds a local variable: the list of a call
\* lives in the frame of that call.
evaluations_home(r) == r

InitConcurrent ==
  /\ IdleSim
  /\ IdleDedup
  /\ IdleChecker
  /\ IdleExtract
  /\ IdleRetrieve
  /\ config \in ConcurrentConfigs
  /\ response = <<>>
  /\ context = NoContext
  /\ pc = "idle"
  /\ facts = <<>>
  /\ updated_facts = <<>>
  /\ loop_index = 0
  /\ fact_index = 0
  /\ documents = <<>>
  /\ evaluations = <<>>
  /\ returned = <<>>
  /\ error = None
  /\ calls = <<>>
  /\ capcalls = <<>>
  /\ deduplicated = <<>>
  /\ \E r2 \in ConcurrentResponses, c2 \in Contexts :
       runs = <<NewFrame(<<"a", " ", "b", ".", " ", "a">>, <<"c">>),
                NewFrame(r2, c2)>>

\* A call other than r has taken a step and has not come to its end.
OtherUnderWay(r) ==
  \E q \in RunIds \ {r} :
     runs[q].answers # <<>> /\ runs[q].pc \notin {"done", "failed"}

\* The call r of run takes its next step: from its suspension point to
\* the next one, or to its end.
Advance(r) ==
  \E answer \in Answers(config, runs[r]) :
     LET home == evaluations_home(r)
         frame == [runs[r] EXCEPT !.evaluations = runs[home].evaluations]
         next == RunStep(config, frame, answer)
     IN  runs' =
           [q \in RunIds |->
              IF q = r
              THEN [next EXCEPT
                      !.answers = Append(runs[r].answers, answer),
                      !.overlapped = runs[r].overlapped \/ OtherUnderWay(r),
                      !.evaluations = IF home = r THEN next.evaluations
                                      ELSE runs[r].evaluations]
              ELSE IF q = home
                   THEN [runs[q] EXCEPT !.evaluations = next.evaluations]
                   ELSE runs[q]]

\* Some call that stands at the given stage takes its step.
ConcurrentStep(stage) ==
  /\ \E r \in RunIds : runs[r].pc = stage /\ Advance(r)
  /\ UNCHANGED <<simvars, dedupvars, runvars, checkervars, extractvars,
                 retrievevars>>

NextConcurrent ==
  \/ ConcurrentStep("extract")
  \/ ConcurrentStep("check")
  \/ ConcurrentStep("check_llm")
  \/ ConcurrentStep("resolve")
  \/ ConcurrentStep("resolve_llm")
  \/ ConcurrentStep("dedup")
  \/ ConcurrentStep("retrieve")
  \/ ConcurrentStep("classify")
  \/ ConcurrentStep("score")

SpecConcurrent == InitConcurrent /\ [][NextConcurrent]_vars

(***************************************************************************)
(* Properties of EvaluationPipeline.run (Spec).                            *)
(***************************************************************************)
DedupOps == {"deduplicate_facts", "custom_dedupe"}

\* The position of a stage in EXTRACT, CHECK, RESOLVE, DEDUPLICATE,
\* (RETRIEVE, CLASSIFY)*, SCORE.
StageRank(op) ==
  CASE op = "extract_facts" -> 1
    [] op = "check_containment" -> 2
    [] op = "self_contain_facts" -> 3
    [] op \in DedupOps -> 4
    [] op \in {"retrieve", "classify"} -> 5
    [] op = "score" -> 6

\* The order of the stage invocations logged in calls.  With
\* resolve_always, a configured checker's check_containment is always
\* followed by self_contain_facts.
StageOrder(resolve_always) ==
  /\ calls # <<>> => calls[1].op = "extract_facts"
  /\ \A n \in 1..(Len(calls) - 1) :
       LET prev == calls[n]
           this == calls[n + 1]
       IN  /\ StageRank(prev.op) <= StageRank(this.op)
           /\ StageRank(prev.op) = StageRank(this.op)
                => StageRank(this.op) = 5
           /\ this.op \in {"check_containment", "self_contain_facts"}
                => config.containment_checker # None
           /\ this.op = "check_containment" => prev.op = "extract_facts"
           /\ this.op = "self_contain_facts"
                => prev.op = "check_containment"
           /\ this.op \in DedupOps
                => /\ this.op = config.deduplication_fn
                   /\ IF config.containment_checker = None
                      THEN prev.op = "extract_facts"
                      ELSE IF resolve_always
                      THEN prev.op = "self_contain_facts"
                      ELSE prev.op \in {"check_containment",
                                        "self_contain_facts"}
           /\ this.op = "retrieve"
                => \/ prev.op \in DedupOps
                   \/ prev.op = "classify" /\ prev.fact # this.fact
           /\ this.op = "classify"
                => prev.op = "retrieve" /\ prev.fact = this.fact
           /\ this.op = "score" => prev.op \in DedupOps \cup {"classify"}

\* C1 as stated: the stage invocations of a run occur in the order
\* extract_facts, check_containment followed by self_contain_facts (only
\* with a containment checker), the deduplication function, retrieve then
\* classify per fact, score; extract, check, resolve, deduplicate and score
\* at most once, and no earlier stage after a later one.
C1_Original == StageOrder(TRUE)

\* C1 as amended: the same order, with self_contain_facts invoked after
\* check_containment exactly when check_containment left at least one fact
\* that is not self-contained.
C1_StageOrder ==
  /\ StageOrder(FALSE)
  /\ pc = "resolve" => non_contained_count(facts) > 0
  /\ (pc = "dedup" /\ calls[Len(calls)].op = "check_containment")
       => non_contained_count(facts) = 0

C1_Witness ==
  /\ pc = "done"
  /\ \E n \in 1..Len(calls) : calls[n].op = "self_contain_facts"
  /\ Len(deduplicated) >= 2
  /\ calls[Len(calls)].op = "score"

IsRetrieverCall(c) == c.cap = "retriever" /\ c.ok

CallCount(op, id) ==
  Cardinality({n \in 1..Len(calls) : calls[n].op = op /\ calls[n].fact = id})

\* C2: a run that reaches DONE returns evaluations and facts index-aligned
\* with the deduplicated facts D, each evaluation holding the documents
\* retrieve returned for its fact; retrieve and classify are invoked once
\* per fact of D and for no other fact.
C2_Aligned ==
  pc = "done" =>
    LET result == returned[1]
        D == deduplicated
        retrieves == SelectSeq(capcalls, IsRetrieverCall)
    IN  /\ Len(result.evaluations) = Len(D)
        /\ Len(result.facts) = Len(D)
        /\ Len(retrieves) = Len(D)
        /\ \A n \in 1..Len(D) :
             /\ result.facts[n] = D[n]
             /\ result.evaluations[n].fact = D[n]
             /\ retrieves[n].fact = D[n].id
             /\ result.evaluations[n].documents = retrieves[n].result
             /\ CallCount("retrieve", D[n].id) = 1
             /\ CallCount("classify", D[n].id) = 1
        /\ \A n \in 1..Len(calls) :
             calls[n].op \in {"retrieve", "classify"}
               => \E m \in 1..Len(D) : D[m].id = calls[n].fact

C2_Witness ==
  /\ pc = "done"
  /\ Len(deduplicated) = 2
  /\ deduplicated[2].id = 3
  /\ returned[1].evaluations[1].documents # <<>>
  /\ returned[1].evaluations[1].documents
       # returned[1].evaluations[2].documents

StageOp(stage) ==
  CASE stage = "extract" -> "extract_facts"
    [] stage = "check" -> "check_containment"
    [] stage = "resolve" -> "self_contain_facts"
    [] stage = "retrieve" -> "retrieve"
    [] stage = "classify" -> "classify"

\* C3: a failing capability call ends the run: it is the last capability
\* call made, the stage it failed in is the last stage invoked, the scorer
\* is not invoked, the caller gets the error and no ResponseEvaluation.
C3_AbortOnFailure ==
  \A n \in 1..Len(capcalls) :
     ~capcalls[n].ok =>
       /\ n = Len(capcalls)
       /\ pc = "failed"
       /\ error = "CapabilityFailure"
       /\ returned = <<>>
       /\ calls[Len(calls)].op = StageOp(capcalls[n].stage)
       /\ capcalls[n].stage \in {"retrieve", "classify"}
            => calls[Len(calls)].fact = capcalls[n].fact
       /\ \A m \in 1..Len(calls) : calls[m].op # "score"

C3_Witness ==
  /\ pc = "failed"
  /\ error = "CapabilityFailure"
  /\ Len(evaluations) >= 1
  /\ Len(evaluations) < Len(deduplicated)
  /\ capcalls[Len(capcalls)].cap = "retriever"
  /\ ~capcalls[Len(capcalls)].ok

\* C4: a run in which no capability call fails ends in DONE with exactly
\* one ResponseEvaluation, with a context and without one: it never ends
\* in failure.
C4_ReachesDone ==
  /\ pc = "failed" => \E n \in 1..Len(capcalls) : ~capcalls[n].ok
  /\ pc = "done" => Len(returned) = 1

OpCount(op) == Cardinality({n \in 1..Len(calls) : calls[n].op = op})

\* The deduplication function has returned.
Deduplicated == \E n \in 1..Len(calls) : calls[n].op \in DedupOps

\* C13: in a run given a context in which no fact survives extraction and
\* deduplication, the retriever and the classifier are never invoked, the
\* scorer is invoked once with an empty evaluation list, and the run
\* returns a ResponseEvaluation with factuality_score 0.0, no facts and no
\* evaluations: it does not fail.
C13_ZeroFacts ==
  (Deduplicated /\ deduplicated = <<>> /\ context # NoContext) =>
    /\ pc \in {"score", "done"}
    /\ error = None
    /\ \A n \in 1..Len(calls) : calls[n].op \notin {"retrieve", "classify"}
    /\ \A n \in 1..Len(capcalls) :
         /\ capcalls[n].cap # "retriever"
         /\ capcalls[n].stage \notin {"retrieve", "classify"}
    /\ evaluations = <<>>
    /\ pc = "done" =>
         /\ OpCount("score") = 1
         /\ Len(returned) = 1
         /\ returned[1].response_text = response
         /\ returned[1].context = context
         /\ returned[1].facts = <<>>
         /\ returned[1].evaluations = <<>>
         /\ RatEq(returned[1].factuality_score, Zero)

\* A completed run in which the generator's reply held no fact.
C13_Witness ==
  /\ pc = "done"
  /\ Deduplicated
  /\ deduplicated = <<>>
  /\ config.extractor_llm
  /\ config.containment_checker = "llm"
  /\ Len(returned) = 1

\* The number of invocations of a deduplication function so far.
DedupCount ==
  Cardinality({n \in 1..Len(calls) : calls[n].op \in DedupOps})

\* The run failed before the deduplication stage.
FailedEarly ==
  /\ pc = "failed"
  /\ error = "CapabilityFailure"
  /\ capcalls[Len(capcalls)].stage \in {"extract", "check", "resolve"}

\* Where a run stands with respect to deduplication: not invoked before
\* the stage, invoked exactly once after it, by the configured function
\* only; what is retrieved, classified and scored is what it returned.
DedupOnce ==
  /\ (pc \in {"extract", "check", "check_llm", "resolve", "resolve_llm",
               "dedup"} \/ FailedEarly) => DedupCount = 0
  /\ (pc \in {"retrieve", "classify", "score", "done"}
       \/ (pc = "failed" /\ ~FailedEarly)) =>
       /\ DedupCount = 1
       /\ OpCount(config.deduplication_fn) = 1
       /\ facts = deduplicated
  /\ \A n \in 1..Len(calls) :
       calls[n].op \in {"retrieve", "classify"} =>
         \E m \in 1..Len(deduplicated) : deduplicated[m].id = calls[n].fact
  /\ pc = "done" =>
       /\ returned[1].facts = deduplicated
       /\ Len(returned[1].evaluations) = Len(deduplicated)

\* The step that leaves the deduplication stage invokes the configured
\* function, the injected one if there is one and the default otherwise,
\* on the list the preceding stage produced, and run goes on with what it
\* returned.
DedupStep ==
  pc = "dedup" =>
    /\ calls' = Append(calls, Call(config.deduplication_fn, 0))
    /\ facts' = IF config.deduplication_fn = "custom_dedupe"
                THEN custom_dedupe(facts)
                ELSE deduplicate_facts(facts, DefaultThreshold)
    /\ deduplicated' = facts'
    /\ pc' \in {"retrieve", "score"}

\* C21: in every run in which extraction and the containment stages
\* succeed, exactly one deduplication function is invoked exactly once,
\* also for zero facts, on the list the preceding stage produced; an
\* injected function is invoked instead of the default; only the facts it
\* returns are retrieved, classified and scored.
C21_DedupAlways == []DedupOnce /\ [][DedupStep]_vars

\* A completed run whose injected function deduplicated a rewritten list,
\* and a completed run that deduplicated zero facts.
C21_Witness ==
  /\ pc = "done"
  /\ config.deduplication_fn = "custom_dedupe"
  /\ DedupCount = 1
  /\ \/ /\ OpCount("self_contain_facts") = 1
        /\ Len(deduplicated) = 2
     \/ /\ config.containment_checker = None
        /\ deduplicated = <<>>

\* The text a knowledge-base entry is matched on.
EntryText(entry) == entry.key \o <<" ">> \o entry.content

\* The entry has at least one keyword of the fact's text in it.
MatchesKeyword(entry) ==
  \E n \in 1..Len(_extract_keywords(rtext)) :
     contains(lower(EntryText(entry)), _extract_keywords(rtext)[n])

\* The knowledge-base entry a returned document came from.
EntryOf(d) ==
  CHOOSE n \in 1..Len(knowledge_base) : knowledge_base[n].key = d.source

\* C22: retrieve returns at most top_k documents, in order of
\* non-increasing relevance_score, each score in (0, 1]; every returned
\* document is an entry of the knowledge base that matches a keyword of the
\* fact, so that nothing is returned when no entry matches; and no entry
\* left out is strictly more relevant than a returned one.
C22_TopK ==
  rpc = "done" =>
    /\ Len(rout) <= top_k
    /\ \A n, m \in 1..Len(rout) :
         n < m => /\ RatGeq(rout[n].relevance_score, rout[m].relevance_score)
                  /\ rout[n].source # rout[m].source
    /\ \A n \in 1..Len(rout) :
         /\ RatGt(rout[n].relevance_score, Zero)
         /\ RatGeq(One, rout[n].relevance_score)
         /\ \E e \in 1..Len(knowledge_base) :
              /\ knowledge_base[e].key = rout[n].source
              /\ knowledge_base[e].content = rout[n].content
              /\ MatchesKeyword(knowledge_base[e])
    /\ (\A e \in 1..Len(knowledge_base) : ~MatchesKeyword(knowledge_base[e]))
         => rout = <<>>
    /\ \A e \in 1..Len(knowledge_base) :
         (\A n \in 1..Len(rout) : rout[n].source # knowledge_base[e].key) =>
           \A n \in 1..Len(rout) :
              RatGeq(rout[n].relevance_score,
                     _calculate_relevance(_extract_keywords(rtext),
                                          EntryText(knowledge_base[e])))

\* Three entries match, two are returned, out of the order of the
\* knowledge base, and the one left out is the least relevant.
C22_Witness ==
  /\ rpc = "done"
  /\ top_k = 2
  /\ Len(rout) = 2
  /\ Len(knowledge_base) = 3
  /\ \A e \in 1..3 : MatchesKeyword(knowledge_base[e])
  /\ EntryOf(rout[1]) > EntryOf(rout[2])
  /\ RatGt(rout[1].relevance_score, rout[2].relevance_score)

\* check_containment has just returned to run.
CheckReturned ==
  /\ pc \in {"resolve", "dedup"}
  /\ calls # <<>>
  /\ calls[Len(calls)].op = "check_containment"

\* The requests made to the judge by the check, in the order made.
IsCheckRequest(c) == c.cap = "judge" /\ c.stage = "check"
CheckRequests == SelectSeq(capcalls, IsCheckRequest)

\* The answer, without the whitespace around it and in lower case, is the
\* word yes.
IsYes(answer) ==
  \E i \in 1..Len(answer) :
     /\ i + 2 <= Len(answer)
     /\ \A n \in 1..Len(answer) : (n < i \/ n > i + 2) => IsSpace(answer[n])
     /\ answer[i] \in {"y", "Y"}
     /\ answer[i + 1] \in {"e", "E"}
     /\ answer[i + 2] \in {"s", "S"}

\* C24: with a judge, check_containment asks the judge once per fact it
\* was given, in the order given, and returns as many facts in that order;
\* is_self_contained is True exactly when the answer, trimmed and
\* lowercased, is "yes" and False otherwise, never unknown; id, text and
\* source_text are as given.
C24_JudgeCheck ==
  (CheckReturned /\ config.containment_checker = "llm") =>
    /\ Len(CheckRequests) = Len(passed)
    /\ Len(facts) = Len(passed)
    /\ \A n \in 1..Len(passed) :
         /\ CheckRequests[n].fact = passed[n].id
         /\ CheckRequests[n].ok
         /\ facts[n].id = passed[n].id
         /\ facts[n].text = passed[n].text
         /\ facts[n].source_text = passed[n].source_text
         /\ facts[n].is_self_contained =
              IF IsYes(CheckRequests[n].result) THEN PyTrue ELSE PyFalse

\* The judge answered "Yes" with a newline for the first of three facts,
\* "yes." for the second and "no" for the third.
C24_Witness ==
  /\ CheckReturned
  /\ config.containment_checker = "llm"
  /\ Len(passed) = 3
  /\ CheckRequests[1].result = <<"Y", "e", "s", "\n">>
  /\ CheckRequests[2].result = <<"y", "e", "s", ".">>
  /\ CheckRequests[3].result = <<"n", "o">>
  /\ facts[1].is_self_contained = PyTrue
  /\ facts[2].is_self_contained = PyFalse

\* C25: every fact handed to retrieve and to classify has a non-empty
\* text, whatever the generator and the judge reply.
C25_NonEmptyText ==
  pc \in {"retrieve", "classify"} => facts[fact_index].text # <<>>

\* The facts of a list all carry the id of their position and the response
\* as source_text, as extraction numbers and labels them.
AsExtracted(fs) ==
  \A n \in 1..Len(fs) : fs[n].id = n /\ fs[n].source_text = response

\* The facts of a list carry ids in increasing order and the response as
\* source_text.
FromExtraction(fs) ==
  /\ \A n \in 1..Len(fs) : fs[n].source_text = response
  /\ \A n, m \in 1..Len(fs) : n < m => fs[n].id < fs[m].id

\* Where id and source_text stand in every list of a run.
IdentityKept ==
  /\ pc \in {"check", "check_llm", "resolve", "resolve_llm", "dedup"} =>
       AsExtracted(facts) /\ AsExtracted(updated_facts)
  /\ FromExtraction(facts)
  /\ FromExtraction(deduplicated)
  /\ FromExtraction([n \in 1..Len(evaluations) |-> evaluations[n].fact])
  /\ pc = "done" =>
       /\ FromExtraction(returned[1].facts)
       /\ FromExtraction([n \in 1..Len(returned[1].evaluations) |->
                            returned[1].evaluations[n].fact])

\* A step of the containment stages that hands a list back to run hands
\* back as many facts as it was given, with the same ids and source texts
\* at the same positions.
ContainmentStep ==
  (pc \in {"check", "check_llm", "resolve", "resolve_llm"}
   /\ pc' \in {"resolve", "dedup"}) =>
     /\ Len(facts') = Len(facts)
     /\ \A n \in 1..Len(facts) :
          /\ facts'[n].id = facts[n].id
          /\ facts'[n].source_text = facts[n].source_text

\* C26: id and source_text of a fact never change after extraction, in
\* every intermediate list and in the returned evaluation, and the
\* containment stages neither add, drop nor reorder facts.
C26_Identity == []IdentityKept /\ [][ContainmentStep]_vars

\* A completed run in which the judge rewrote the second of three facts.
C26_Witness ==
  /\ pc = "done"
  /\ OpCount("self_contain_facts") = 1
  /\ Len(returned[1].facts) >= 2
  /\ \E c \in 1..Len(capcalls) :
       capcalls[c].stage = "resolve" /\ capcalls[c].fact = 2 /\ capcalls[c].ok
  /\ \E n \in 1..Len(returned[1].facts) : returned[1].facts[n].id = 2

C28_Flags ==
  pc = "done" =>
    LET fs == returned[1].facts
        es == returned[1].evaluations
    IN  /\ config.containment_checker # None =>
             \A n \in 1..Len(fs) :
                /\ fs[n].is_self_contained \in {PyTrue, PyFalse}
                /\ es[n].fact.is_self_contained \in {PyTrue, PyFalse}
        /\ config.containment_checker = "llm" =>
             \A n \in 1..Len(fs) :
                /\ fs[n].is_self_contained = PyTrue
                /\ es[n].fact.is_self_contained = PyTrue
        /\ config.containment_checker = None =>
             /\ OpCount("check_containment") = 0
             /\ OpCount("self_contain_facts") = 0
             /\ \A n \in 1..Len(fs) :
                  /\ fs[n].is_self_contained = None
                  /\ es[n].fact.is_self_contained = None

\* A completed run with a judge that answered no for a fact, which was
\* then rewritten and is returned as self-contained.
C28_Witness ==
  /\ pc = "done"
  /\ config.containment_checker = "llm"
  /\ \E c \in 1..Len(capcalls) :
       /\ capcalls[c].stage = "check"
       /\ capcalls[c].result = <<"n", "o">>
       /\ \E n \in 1..Len(returned[1].facts) :
            returned[1].facts[n].id = capcalls[c].fact

\* C30: every fact the basic extractor derives from a response is marked
\* self-contained by the basic check against that response.
C30_BasicSelfContained ==
  (CheckReturned /\ ~config.extractor_llm
   /\ config.containment_checker = "basic") =>
     \A n \in 1..Len(facts) : facts[n].is_self_contained = PyTrue

RECURSIVE Replay(_, _, _, _)
\* The frame of a call of run that is alone on the pipeline and gets the
\* given replies, from the n-th on.
Replay(cfg, frame, answers, n) ==
  IF n > Len(answers) THEN frame
  ELSE Replay(cfg, RunStep(cfg, frame, answers[n]), answers, n + 1)

\* What the call r has got from its capabilities would have given it, had
\* it been the only call.
Alone(r) ==
  Replay(config, NewFrame(runs[r].response, runs[r].context),
         runs[r].answers, 1)

\* The facts of a list all come from the given response.
AllFrom(fs, resp) == \A n \in 1..Len(fs) : fs[n].source_text = resp

InUnitInterval(r) == RatGeq(r, Zero) /\ RatGeq(One, r)

\* C14: a judge reply whose category is not in the configured category set
\* or whose confidence is outside [0,1] is never stored: every
\* FactEvaluation built by classify, and so every one in a returned
\* ResponseEvaluation, has its category in the category set and a
\* confidence in [0,1].
C14_Validated ==
  /\ \A n \in 1..Len(evaluations) :
       /\ evaluations[n].category \in evaluation_categories(config)
       /\ InUnitInterval(evaluations[n].confidence)
  /\ pc = "done" =>
       \A n \in 1..Len(returned[1].evaluations) :
          /\ returned[1].evaluations[n].category
               \in evaluation_categories(config)
          /\ InUnitInterval(returned[1].evaluations[n].confidence)

\* C15: with rubric weights in [0,1], every returned ResponseEvaluation has
\* 0 <= factuality_score <= 1, whatever the judge replied.
C15_ScoreInUnitInterval ==
  ( /\ pc = "done"
    /\ \A c \in DOMAIN config.scorer : InUnitInterval(config.scorer[c]) )
  => InUnitInterval(returned[1].factuality_score)

\* C16: the categories the classifier offers to the judge are exactly the
\* keys of the rubric the scorer weights with, and there is at least one.
C16_SameCategories ==
  /\ evaluation_categories(config) = DOMAIN config.scorer
  /\ evaluation_categories(config) # {}

(***************************************************************************)
(* Properties of ContainmentChecker (SpecChecker).                         *)
(***************************************************************************)
\* The harness called self_contain_facts on the list in given, and the
\* call has returned.
Resolved ==
  /\ calls # <<>>
  /\ calls[1].op = "self_contain_facts"
  /\ pc = "dedup"

\* The judge's replies to the rewrite requests made for the fact id.
RewritesFor(id) ==
  SelectSeq(capcalls,
            LAMBDA c : c.cap = "judge" /\ c.stage = "resolve" /\ c.fact = id)

\* self_contain_facts returns a list of the length and order of its input;
\* without a judge the input itself, with no request issued; with a judge
\* self-contained facts unchanged with no request, and every other fact
\* (false or unknown) as a copy with is_self_contained true and the text
\* taken from the one reply to the one request made for it: the reply
\* itself (as_replied), or the reply without its surrounding whitespace.
ResolveContract(as_replied) ==
  Resolved =>
    /\ Len(facts) = Len(given)
    /\ \A n \in 1..Len(given) :
         /\ facts[n].id = given[n].id
         /\ facts[n].source_text = given[n].source_text
         /\ facts[n].is_relevant = given[n].is_relevant
    /\ IF config.containment_checker = "basic"
       THEN facts = given /\ capcalls = <<>>
       ELSE /\ Len(capcalls) = non_contained_count(given)
            /\ \A n \in 1..Len(given) :
                 LET requests == RewritesFor(given[n].id)
                 IN  IF given[n].is_self_contained = PyTrue
                     THEN facts[n] = given[n] /\ requests = <<>>
                     ELSE /\ Len(requests) = 1
                          /\ requests[1].ok
                          /\ facts[n].text
                               = IF as_replied THEN requests[1].result
                                 ELSE strip(requests[1].result)
                          /\ facts[n].is_self_contained = PyTrue
            /\ \A n \in 1..Len(facts) : facts[n].is_self_contained = PyTrue

\* C17 as stated: the text of a rewritten fact is the judge's rewrite.
C17_Original == ResolveContract(TRUE)

\* C17 as amended: the text of a rewritten fact is the judge's rewrite
\* with leading and trailing whitespace removed.
C17_Resolve == ResolveContract(FALSE)

\* A list holding a self-contained fact, a fact marked false and a fact of
\* unknown status has been resolved with a judge.
C17_Witness ==
  /\ Resolved
  /\ config.containment_checker = "llm"
  /\ Len(given) = 3
  /\ given[1].is_self_contained = PyTrue
  /\ given[2].is_self_contained = None
  /\ given[3].is_self_contained = PyFalse
  /\ Len(capcalls) = 2
  /\ facts[2].text # given[2].text

\* t[i..j] is a word of t: a maximal run of characters without whitespace.
IsWord(t, i, j) ==
  /\ i <= j
  /\ \A k \in i..j : ~IsSpace(t[k])
  /\ i = 1 \/ IsSpace(t[i - 1])
  /\ j = Len(t) \/ IsSpace(t[j + 1])

\* The lowercased whitespace-separated words of a text.
WordSet(text) ==
  LET t == lower(text)
  IN  {SubSeq(t, p[1], p[2]) :
         p \in {q \in (1..Len(t)) \X (1..Len(t)) : IsWord(t, q[1], q[2])}}

\* The harness called check_containment without a judge on the list in
\* given, and the call has returned.
CheckedBasic ==
  /\ calls # <<>>
  /\ calls[1].op = "check_containment"
  /\ config.containment_checker = "basic"

\* C18: without a judge, check_containment marks a fact is_self_contained
\* true if and only if the set of its lowercased whitespace-separated
\* words is a subset of that of the response, and false otherwise; no fact
\* is left unknown, and nothing else of a fact changes.
C18_BasicCheck ==
  CheckedBasic =>
    /\ Len(facts) = Len(given)
    /\ \A n \in 1..Len(given) :
         /\ facts[n].is_self_contained = PyTrue
              <=> WordSet(given[n].text) \subseteq WordSet(response)
         /\ facts[n].is_self_contained = PyFalse
              <=> \E w \in WordSet(given[n].text) : w \notin WordSet(response)
         /\ facts[n].is_self_contained # None
         /\ facts[n] = [given[n] EXCEPT !.is_self_contained =
                                          facts[n].is_self_contained]

\* Facts whose words occur in the response in another case are marked
\* true, whether they were marked false or unknown before.
C18_Witness ==
  /\ CheckedBasic
  /\ Len(given) >= 2
  /\ \E n, m \in 1..Len(given) :
       /\ given[n].text = <<"a", " ", "b">>
       /\ response = <<"a", " ", " ", "B">>
       /\ given[n].is_self_contained = PyFalse
       /\ facts[n].is_self_contained = PyTrue
       /\ given[m].is_self_contained = None
       /\ facts[m].is_self_contained = PyTrue
  /\ \A n \in 1..Len(given) : facts[n].is_self_contained # None

(***************************************************************************)
(* Properties of FactExtractor (SpecExtract).                              *)
(***************************************************************************)
\* The positions at which a period-delimited segment of t starts: the
\* first position and the one after each period.
SegmentStarts(t) == {1} \cup {p + 1 : p \in {q \in 1..Len(t) : t[q] = "."}}

\* The last position of the segment of t that starts at i (i - 1 when the
\* segment is empty).
SegmentEnd(t, i) ==
  LET periods == {q \in i..Len(t) : t[q] = "."}
  IN  IF periods = {} THEN Len(t) ELSE Min(periods) - 1

\* The positions of the segment starting at i that hold no whitespace.
Inked(t, i) == {k \in i..SegmentEnd(t, i) : ~IsSpace(t[k])}

\* The starts of the segments that are not blank.
NonBlankStarts(t) == {i \in SegmentStarts(t) : Inked(t, i) # {}}

\* The segment starting at i without its surrounding whitespace.
Trimmed(t, i) == SubSeq(t, Min(Inked(t, i)), Max(Inked(t, i)))

\* C19: with no claim generator, extract_facts yields one AtomicFact per
\* non-blank period-delimited segment of the response, in the original
\* order, its text the trimmed segment: non-empty, without a period and
\* without leading or trailing whitespace; source_text is the full
\* response and is_self_contained is unknown.  A response without a
\* non-blank segment yields no fact.
C19_BasicExtraction ==
  epc \in {"basic", "done"} =>
    LET starts == NonBlankStarts(etext)
    IN  /\ Len(ebasic) = Cardinality(starts)
        /\ \A i \in starts :
             ebasic[Cardinality({k \in starts : k <= i})].text
               = Trimmed(etext, i)
        /\ \A n \in 1..Len(ebasic) :
             LET text == ebasic[n].text
             IN  /\ text # <<>>
                 /\ \A k \in 1..Len(text) : text[k] # "."
                 /\ ~IsSpace(text[1])
                 /\ ~IsSpace(text[Len(text)])
                 /\ ebasic[n].source_text = etext
                 /\ ebasic[n].is_self_contained = None
        /\ \A n, m \in 1..Len(ebasic) :
             n # m => ebasic[n].id # ebasic[m].id
        /\ starts = {} => ebasic = <<>>

\* A response with a blank segment between two sentences that carry
\* surrounding whitespace gives two facts.
C19_Witness ==
  /\ epc = "basic"
  /\ Len(ebasic) = 2
  /\ Cardinality(SegmentStarts(etext)) >= 3
  /\ IsSpace(etext[1])
  /\ ebasic[1].text # ebasic[2].text

\* A bullet marker: the bullet character, a dash or an asterisk.
IsMarker(c) == c \in {Bullet, "-", "*"}

\* The text begins with an enumeration prefix "<digits>. ".
HasEnumerationPrefix(text) ==
  \E k \in 1..(Len(text) - 2) :
     /\ \A d \in 1..k : isdigit(text[d])
     /\ text[k + 1] = "."
     /\ text[k + 2] = " "

\* C20: with a claim generator, every fact produced from the generator's
\* output has source_text equal to the response and a text that is not
\* empty, does not begin with a bullet marker and does not begin with an
\* enumeration prefix "<digits>. " of any number of digits; there is at
\* most one fact per line of the output.
C20_CleanedLines ==
  epc = "done" =>
    /\ Len(ellm) <= Len(split(etext, "\n"))
    /\ \A n \in 1..Len(ellm) :
         /\ ellm[n].source_text = ExtractResponse
         /\ ellm[n].text # <<>>
         /\ ~IsMarker(ellm[n].text[1])
         /\ ~HasEnumerationPrefix(ellm[n].text)

(***************************************************************************)
(* Properties of FactualityScorer.score (SpecScore).                       *)
(***************************************************************************)
\* k times the rational r, for an r whose denominator divides k.
Scaled(r, k) == (r.num * k) \div r.den

RECURSIVE WeightedSum4(_, _, _)
\* Four times the sum over evals[1..n] of weight * confidence, in integer
\* arithmetic (weights and confidences are multiples of 1/2); a category
\* that is not a key of the rubric has weight 0.
WeightedSum4(rubric, evals, n) ==
  IF n = 0 THEN 0
  ELSE WeightedSum4(rubric, evals, n - 1)
       + (IF evals[n].category \in DOMAIN rubric
          THEN Scaled(rubric[evals[n].category], 2)
          ELSE 0) * Scaled(evals[n].confidence, 2)

\* C12: for a non-empty evaluation list, score returns factuality_score =
\* (sum of rubric[category] * confidence) / number of evaluations; a
\* category that is not a key of the rubric adds 0 to the sum, counts in
\* the denominator and does not raise; the mean is not clamped.
C12_WeightedMean ==
  /\ (pc = "done" /\ evaluations # <<>>) =>
       LET r == returned[1].factuality_score
           n == Len(evaluations)
       IN  /\ r.den > 0
           /\ r.num * 4 * n
                = WeightedSum4(config.scorer, evaluations, n) * r.den
  /\ (pc # "score" /\ context # NoContext) => (pc = "done" /\ error = None)

\* A negative score: one evaluation of a negatively weighted category, one
\* of a category that is not in the rubric.
C12_Witness ==
  /\ pc = "done"
  /\ Len(evaluations) >= 2
  /\ \E n \in 1..Len(evaluations) :
       evaluations[n].category \notin DOMAIN config.scorer
  /\ RatGt(Zero, returned[1].factuality_score)

(***************************************************************************)
(* Properties of deduplicate_facts (SpecDedup).                            *)
(***************************************************************************)
Kept(out, f) == \E k \in 1..Len(out) : out[k] = f

RECURSIVE IsSubsequence(_, _, _, _)
\* s[i..] can be read off t[j..] from left to right.
IsSubsequence(s, t, i, j) ==
  IF i > Len(s) THEN TRUE
  ELSE IF j > Len(t) THEN FALSE
  ELSE IF s[i] = t[j] THEN IsSubsequence(s, t, i + 1, j + 1)
  ELSE IsSubsequence(s, t, i, j + 1)

Count(s, f) == Cardinality({k \in 1..Len(s) : s[k] = f})

NearDuplicate(f, g, t) == RatGeq(_calculate_similarity(f.text, g.text), t)

\* C5: deduplicating the output of deduplicate_facts again, at the same
\* threshold, gives the same facts in the same order.
C5_Idempotent == dpc \in {"twice", "done"} => dagain = dout

C5_Witness ==
  /\ dpc = "twice"
  /\ Len(dout) >= 2
  /\ Len(dout) < Len(dfacts)
  /\ dagain = dout

\* C6 as stated: at a threshold raised from dthr to dthr2 the number of
\* retained facts is at least the number retained at dthr.
C6_Original == dpc = "done" => Len(dout2) >= Len(dout)

\* C6 as amended: the count is monotone for inputs of at most three facts,
\* and for any input the first fact on which the two outcomes differ is
\* retained at the higher threshold and discarded at the lower one.
C6_FirstDivergence ==
  dpc = "done" =>
    /\ Len(dfacts) <= 3 => Len(dout2) >= Len(dout)
    /\ \A i \in 1..Len(dfacts) :
         ( /\ \A k \in 1..(i - 1) :
                 Kept(dout, dfacts[k]) <=> Kept(dout2, dfacts[k])
           /\ Kept(dout, dfacts[i]) # Kept(dout2, dfacts[i]) )
         => (Kept(dout2, dfacts[i]) /\ ~Kept(dout, dfacts[i]))

C6_Witness ==
  /\ dpc = "done"
  /\ RatGt(dthr2, dthr)
  /\ Len(dfacts) >= 3
  /\ Len(dout2) > Len(dout)
  /\ \E i \in 2..Len(dfacts) :
       Kept(dout2, dfacts[i]) /\ ~Kept(dout, dfacts[i])

\* C7: the output of deduplicate_facts is an order-preserving subsequence
\* of the input with unchanged facts, no fact more often than in the input,
\* the first input fact first; empty for an empty input.
C7_Subsequence ==
  dpc # "init" /\ dpc # "idle" =>
    /\ IsSubsequence(dout, dfacts, 1, 1)
    /\ \A k \in 1..Len(dout) : Count(dout, dout[k]) <= Count(dfacts, dout[k])
    /\ dfacts # <<>> => (dout # <<>> /\ dout[1] = dfacts[1])
    /\ dfacts = <<>> => dout = <<>>

C7_Witness ==
  /\ dpc = "once"
  /\ Len(dfacts) >= 4
  /\ ~Kept(dout, dfacts[2])
  /\ Kept(dout, dfacts[3])
  /\ Len(dout) >= 3

\* A set of input positions whose facts are near-duplicates of one
\* another, which no further input fact can join.
MutualGroup(G) ==
  /\ Cardinality(G) >= 2
  /\ \A i, j \in G :
       i # j => NearDuplicate(dfacts[i], dfacts[j], dthr)
  /\ \A k \in (1..Len(dfacts)) \ G :
       \E i \in G :
          \/ ~NearDuplicate(dfacts[i], dfacts[k], dthr)
          \/ ~NearDuplicate(dfacts[k], dfacts[i], dthr)

\* C8 as stated: of input facts that are near-duplicates of one another
\* (similarity >= threshold, in both directions, between any two of them)
\* the one occurring first in the input is retained.
C8_Original ==
  dpc = "once" =>
    \A G \in SUBSET (1..Len(dfacts)) :
       MutualGroup(G) => Kept(dout, dfacts[Min(G)])

\* C8 as amended: for input facts i < j with similarity(F[j], F[i]) >=
\* threshold, if F[i] is retained then F[j] is discarded whatever the text
\* lengths, and F[i] is discarded only when it is itself a near-duplicate
\* of a retained fact that occurs before it.
C8_FirstSeen ==
  dpc = "once" =>
    \A i, j \in 1..Len(dfacts) :
       (i < j /\ NearDuplicate(dfacts[j], dfacts[i], dthr))
       => /\ Kept(dout, dfacts[i]) => ~Kept(dout, dfacts[j])
          /\ ~Kept(dout, dfacts[i]) =>
               \E k \in 1..(i - 1) :
                  /\ Kept(dout, dfacts[k])
                  /\ NearDuplicate(dfacts[i], dfacts[k], dthr)

C8_Witness ==
  /\ dpc = "once"
  /\ \E i, j \in 1..Len(dfacts) :
       /\ i < j
       /\ NearDuplicate(dfacts[j], dfacts[i], dthr)
       /\ Len(dfacts[j].text) < Len(dfacts[i].text)
       /\ Kept(dout, dfacts[i])
       /\ ~Kept(dout, dfacts[j])

\* An earlier input fact that is retained and whose lowercased text is the
\* lowercased text of dfacts[i].
\* The fact at position i is at least as similar as the threshold asks to
\* the fact at the earlier position k, and that one was retained.
RetainedMatch(i, k) ==
  /\ k < i
  /\ Kept(dout, dfacts[k])
  /\ RatGeq(_calculate_similarity(dfacts[i].text, dfacts[k].text), dthr)

IdenticalEarlier(i) ==
  \E k \in 1..(i - 1) :
     /\ Kept(dout, dfacts[k])
     /\ lower(dfacts[k].text) = lower(dfacts[i].text)

Chars(s) == {s[i] : i \in 1..Len(s)}

\* C9: the similarity scorer is symmetric, sim(a, b) = sim(b, a).
C9_Symmetric == spc = "done" => RatEq(sab, sba)

\* C10 as stated: 0 <= sim(a, b) <= 1, sim(a, b) = 1 when the lowercased
\* texts are identical, sim(a, b) = 0 when they share no character.
C10_Original ==
  spc = "done" =>
    /\ RatGeq(sab, Zero) /\ RatGeq(One, sab)
    /\ lower(sa) = lower(sb) => RatEq(sab, One)
    /\ Chars(lower(sa)) \cap Chars(lower(sb)) = {} => RatEq(sab, Zero)

\* C10 as amended: 0 <= sim(a, b) <= 1, sim(a, b) = 1 when the lowercased
\* texts are identical (two empty texts included), sim(a, b) = 0 when the
\* lowercased texts share no character and are not both empty.
C10_Bounds ==
  spc = "done" =>
    /\ RatGeq(sab, Zero) /\ RatGeq(One, sab)
    /\ lower(sa) = lower(sb) => RatEq(sab, One)
    /\ ( /\ Chars(lower(sa)) \cap Chars(lower(sb)) = {}
         /\ Len(sa) + Len(sb) > 0 ) => RatEq(sab, Zero)

C10_Witness ==
  /\ spc = "done"
  /\ Len(sa) >= 2
  /\ sa # sb
  /\ lower(sa) = lower(sb)
  /\ RatEq(sab, One)

====
